---- MODULE Spec2Model ----
(***************************************************************************)
(* A model of the EPUB structural resolver of bookParse: EPUBParser        *)
(* (validate, parse, metadata / cover / table-of-contents extraction) and  *)
(* ChapterSplitter (initialize, splitChapters, dispose).                   *)
(*                                                                         *)
(* Representation.  A string is a sequence of tokens, the empty string is  *)
(* << >> and concatenation is \o.  A path is the sequence of its segments, *)
(* so that `${dir}/${href}` is dir \o href and "./x" is << ".", "x" >>.    *)
(* An archive (JSZip) is a function from paths to entry contents; an entry *)
(* exists iff its path is in the DOMAIN.  A call that may throw returns    *)
(* an outcome record [threw, value] or [threw, msg].                       *)
(***************************************************************************)
EXTENDS Integers, Sequences, FiniteSets, TLC

VARIABLES
    file,           \* the file the path given to validate()/parse() names
    validateOut,    \* what the last validate(filePath) call returned
    parseResults,   \* the results the parse(filePath) calls returned, in order
    uuidCount,      \* number of identifiers uuidv4() has handed out
    config,         \* the ParseConfig the parser was constructed with
    splitter,       \* ChapterSplitter fields: zip, opfDir
    initOut,        \* outcome of the last ChapterSplitter.initialize call
    splitOut,       \* the last ChapterSplitter.splitChapters call: arguments and outcome
    statsOut,       \* the last ChapterSplitter.getChapterStats call: argument and result
    route,          \* a POST /:fileId/split request: position, level, session, response
    sessions,       \* FileManager.sessions, the entry of one fileId
    sessionFile,    \* the session file of that fileId in sessionDir
    analyze,        \* the POST /:fileId/analyze requests in flight
    deletion        \* a FileManager.deleteSession(fileId) call: its position

vars == <<file, config, validateOut, parseResults, uuidCount, splitter, initOut, splitOut,
          statsOut, route, sessions, sessionFile, analyze, deletion>>

parserVars == <<validateOut, parseResults, uuidCount>>
splitterVars == <<splitter, initOut, splitOut, statsOut, route>>
storageVars == <<sessions, sessionFile, analyze, deletion>>

(***************************************************************************)
(* Outcomes of calls                                                       *)
(***************************************************************************)
Return(v) == [threw |-> FALSE, value |-> v]
Throw(m) == [threw |-> TRUE, msg |-> m]

\* an awaited call inside a block: the rest of the block runs on its value, a throw
\* leaves the block
Then(r, Rest(_)) == IF r.threw THEN r ELSE Rest(r.value)

\* try { block } catch (error) { handler }
Catch(r, Handler(_)) == IF r.threw THEN Handler(r.msg) ELSE r

\* const x = e, for the statements that follow
Let(x, Rest(_)) == Rest(x)

NotCalled == [called |-> FALSE]
Called(o) == [called |-> TRUE, out |-> o]

(***************************************************************************)
(* Strings                                                                 *)
(***************************************************************************)
WhiteSpace == {" ", "\n", "\t"}

RECURSIVE trimStart(_)
trimStart(s) ==
    IF s = << >> THEN s
    ELSE IF Head(s) \in WhiteSpace THEN trimStart(Tail(s)) ELSE s

RECURSIVE trimEnd(_)
trimEnd(s) ==
    IF s = << >> THEN s
    ELSE IF s[Len(s)] \in WhiteSpace THEN trimEnd(SubSeq(s, 1, Len(s) - 1)) ELSE s

\* String.prototype.trim
trim(s) == trimEnd(trimStart(s))

\* String.prototype.toLowerCase on the file extensions of the model
toLowerCase(s) ==
    CASE s = <<".EPUB">> -> <<".epub">>
      [] s = <<".Epub">> -> <<".epub">>
      [] OTHER -> s

Range(s) == {s[i] : i \in DOMAIN s}

(***************************************************************************)
(* Paths and archives                                                      *)
(***************************************************************************)
MimetypePath == <<"mimetype">>
ContainerPath == <<"META-INF", "container.xml">>
EpubMimetype == <<"application/epub+zip">>

\* path.dirname: the parent directory, "." for a path with no directory part
dirname(p) == IF Len(p) <= 1 THEN <<".">> ELSE SubSeq(p, 1, Len(p) - 1)

\* zip.file(path): the entry, or null
HasEntry(zip, p) == p \in DOMAIN zip

\* file.async('text'): rejects when the entry's data cannot be inflated
ReadText(zip, p) ==
    IF zip[p].kind = "corrupt" THEN Throw(<<"Corrupted zip">>) ELSE Return(zip[p])

\* xml2js parseStringPromise: rejects unless the text is well-formed XML
XmlKinds == {"container", "opf", "ncx", "nav"}
parseStringPromise(content) ==
    IF content.kind \in XmlKinds THEN Return(content) ELSE Throw(<<"Non-whitespace before first tag.">>)

\* containerData.container?.rootfiles?.[0]?.rootfile?.[0]?.['$']?.['full-path']
FullPathOf(data) == IF data.kind = "container" THEN data.fullPath ELSE << >>

(***************************************************************************)
(* EPUBParser.validate                                                     *)
(***************************************************************************)
MaxFileSize == 104857600
getSupportedFormats == {<<".epub">>}

\* step 8 of validate: its own try/catch around reading and parsing container.xml
validateContainer(zip) ==
    Catch(Then(ReadText(zip, ContainerPath), LAMBDA containerXml :
          Then(parseStringPromise(containerXml), LAMBDA containerData :
          Return(FullPathOf(containerData) # << >>))),
          LAMBDA error : Return(FALSE))

\* the body of validate's outer try block
validateTry(f) ==
    IF f.disk.kind = "absent" THEN Return(FALSE)
    ELSE IF toLowerCase(f.ext) \notin getSupportedFormats THEN Return(FALSE)
    ELSE IF f.disk.size = 0 THEN Return(FALSE)
    ELSE IF f.disk.size > MaxFileSize THEN Return(FALSE)
    ELSE IF ~f.disk.readable THEN Throw(<<"EACCES">>)
    ELSE IF f.disk.zip.kind # "zip" THEN Return(FALSE)
    ELSE LET zip == f.disk.zip.entries IN
         IF ~HasEntry(zip, MimetypePath) THEN Return(FALSE)
         ELSE Then(ReadText(zip, MimetypePath), LAMBDA mimetype :
              IF mimetype.kind # "text" \/ trim(mimetype.text) # EpubMimetype
              THEN Return(FALSE)
              ELSE IF ~HasEntry(zip, ContainerPath) THEN Return(FALSE)
              ELSE validateContainer(zip))

validateNoCatch(f) == validateTry(f)

validate(f) == Catch(validateTry(f), LAMBDA error : Return(FALSE))

(***************************************************************************)
(* Substring tests on the names of the model.  Attribute values (ids,      *)
(* media types, properties, path segments) are atoms; the tests the code   *)
(* makes with includes / startsWith / toLowerCase are tables over them.    *)
(***************************************************************************)
lowerSeg(seg) ==
    CASE seg = "Cover.png" -> "cover.png"
      [] seg = "NAV.XHTML" -> "nav.xhtml"
      [] seg = "TOC.html" -> "toc.html"
      [] OTHER -> seg

SubstringTable ==
    { <<"nav.xhtml", "nav.xhtml">>, <<"nav.xhtml", "nav">>,
      <<"toc.ncx", "toc">>, <<"toc.html", "toc">>,
      <<"contents.html", "contents">>, <<"index.html", "index">>,
      <<"cover.jpg", "cover">>, <<"cover.png", "cover">>, <<"mycover.jpg", "cover">>,
      <<"cover", "cover">>, <<"cover-image", "cover">>, <<"cover-img", "cover">>,
      <<"nav", "nav">>, <<"nav scripted", "nav">>,
      <<"application/xhtml+xml", "html">>, <<"text/html", "html">> }

\* s.includes(sub) for an atom s
includes(s, sub) == <<s, sub>> \in SubstringTable

\* href.toLowerCase().includes(sub) for a path-shaped string
hrefIncludes(href, sub) == \E i \in DOMAIN href : includes(lowerSeg(href[i]), sub)

\* mediaType.startsWith('image/')
isImageType(mediaType) == mediaType \in {"image/jpeg", "image/png", "image/gif"}

NcxMediaType == "application/x-dtbncx+xml"

\* opfDir && opfDir !== '.' ? `${opfDir}/${p}` : p
withOpfDir(opfDir, p) ==
    IF opfDir # << >> /\ opfDir # <<".">> THEN opfDir \o p ELSE p

\* the first path of the list that names an entry of the archive, << >> if none
RECURSIVE firstExisting(_, _)
firstExisting(zip, paths) ==
    IF paths = << >> THEN << >>
    ELSE IF HasEntry(zip, Head(paths)) THEN <<Head(paths)>>
    ELSE firstExisting(zip, Tail(paths))

\* the first element of a sequence that satisfies a test (Array.prototype.find, or a
\* for-of loop that stops at its first hit), as a sequence of zero or one element
firstWhere(seq, Test(_)) ==
    LET hits == {i \in DOMAIN seq : Test(seq[i])} IN
    IF hits = {} THEN << >>
    ELSE <<seq[CHOOSE i \in hits : \A j \in hits : i <= j]>>

\* items.find(test)?.$?.href, << >> for undefined
hrefOfFirst(items, Test(_)) ==
    LET hit == firstWhere(items, Test) IN IF hit = << >> THEN << >> ELSE hit[1].href

\* a || b on strings
orElse(a, b) == IF a # << >> THEN a ELSE b

\* the element of a sequence of zero or one element, << >> for none
firstOrEmpty(found) == IF found = << >> THEN << >> ELSE found[1]

TypeError == <<"TypeError: Cannot read properties of undefined">>

(***************************************************************************)
(* Package document accessors                                              *)
(***************************************************************************)
\* opfData.package.metadata[0]
metadataOf(opfData) ==
    IF opfData.kind # "opf" \/ ~opfData.hasPackage THEN Throw(TypeError)
    ELSE IF opfData.metadata.kind = "absent" THEN Throw(TypeError)
    ELSE Return(opfData.metadata)

\* opfData.package.manifest[0].item : undefined for a manifest without items
manifestOf(opfData) ==
    IF opfData.kind # "opf" \/ ~opfData.hasPackage THEN Throw(TypeError)
    ELSE IF opfData.manifest.kind = "absent" THEN Throw(TypeError)
    ELSE Return([defined |-> opfData.manifest.item # << >>, items |-> opfData.manifest.item])

\* opfData.package.spine[0].itemref : undefined for a spine without itemrefs
spineOf(opfData) ==
    IF opfData.kind # "opf" \/ ~opfData.hasPackage THEN Throw(TypeError)
    ELSE IF opfData.spine.kind = "absent" THEN Throw(TypeError)
    ELSE Return([defined |-> opfData.spine.itemref # << >>, items |-> opfData.spine.itemref])

\* the literals of extractBookInfo, transliterated (weizhi = unknown)
UnknownTitle == <<"weizhi biaoti">>
UnknownAuthor == <<"weizhi zuozhe">>
UnknownPublisher == <<"weizhi chubanshe">>

(***************************************************************************)
(* EPUBParser.extractBookInfo                                              *)
(***************************************************************************)
\* the text of the first element stored under a metadata key, '' if none
getMetadataValue(metadata, key) ==
    IF metadata[key] = << >> THEN << >> ELSE metadata[key][1]


\* contributor.$?.role || contributor.$?.['opf:role']
roleOf(contributor) == IF contributor.role # "" THEN contributor.role ELSE contributor.opfRole

isTranslator(contributor) == roleOf(contributor) \in {"trl", "translator"}

translatorOf(metadata) ==
    LET hit == firstWhere(metadata.contributor, isTranslator) IN
    IF hit = << >> THEN << >> ELSE hit[1].text

extractBookInfo(opfData) ==
    Then(metadataOf(opfData), LAMBDA metadata :
         Return([ title |-> orElse(getMetadataValue(metadata, "title"), UnknownTitle),
                  author |-> orElse(getMetadataValue(metadata, "creator"), UnknownAuthor),
                  translator |-> translatorOf(metadata),
                  publisher |-> orElse(getMetadataValue(metadata, "publisher"), UnknownPublisher),
                  isbn |-> getMetadataValue(metadata, "identifier"),
                  publication_date |-> getMetadataValue(metadata, "date"),
                  language |-> orElse(getMetadataValue(metadata, "language"), <<"zh">>) ]))


(***************************************************************************)
(* Table of contents: the four tiers of EPUBParser.extractTableOfContents. *)
(* Every tier returns [items, n]: the TocItems and the number of           *)
(* identifiers handed out so far.  uuidv4() is the next unused number.     *)
(*                                                                         *)
(* Title tokens stand for the characters the code tests:                   *)
(*   "di" U+7B2C, "zhang" U+7AE0, "jie" U+8282, "bufen" U+90E8 U+5206,     *)
(*   "yi".."wu" the numerals U+4E00.., "mulu" U+76EE U+5F55.               *)
(***************************************************************************)
NullId == 0

TocItem(id, title, level, href, parentId) ==
    [id |-> id, title |-> title, level |-> level, href |-> href, parent_id |-> parentId]

Tier(items, n) == [items |-> items, n |-> n]

\* parseNavXhtmlContent: one TocItem for every <li> that directly holds a single
\* <a href="..."> with text only, whose trimmed text is not empty
RECURSIVE navItems(_, _)
navItems(lis, n) ==
    IF lis = << >> THEN Tier(<< >>, n)
    ELSE LET li == Head(lis)
             matched == li.direct /\ li.href # << >> /\ li.text # << >>
             kept == matched /\ trim(li.text) # << >>
         IN IF kept
            THEN LET rest == navItems(Tail(lis), n + 1) IN
                 Tier(<<TocItem(n + 1, trim(li.text), 1, li.href, NullId)>> \o rest.items, rest.n)
            ELSE navItems(Tail(lis), n)

parseNavXhtmlContent(navContent, n) ==
    IF navContent.kind = "nav" THEN navItems(navContent.lis, n) ELSE Tier(<< >>, n)

isNavItem(item) == includes(item.properties, "nav") \/ hrefIncludes(item.href, "nav.xhtml")

\* the body of extractTocFromNavFile's try block
extractTocFromNavFileTry(zip, manifest, opfDir, n) ==
    IF ~manifest.defined THEN Throw(TypeError)
    ELSE Let(hrefOfFirst(manifest.items, isNavItem), LAMBDA navPath :
         IF navPath = << >> THEN Return(Tier(<< >>, n))
         ELSE Let(firstExisting(zip, <<navPath, withOpfDir(opfDir, navPath)>>), LAMBDA found :
              IF found = << >> THEN Return(Tier(<< >>, n))
              ELSE Then(ReadText(zip, found[1]), LAMBDA navContent :
                   Return(parseNavXhtmlContent(navContent, n)))))

extractTocFromNavFile(zip, manifest, opfDir, n) ==
    Catch(extractTocFromNavFileTry(zip, manifest, opfDir, n),
          LAMBDA error : Return(Tier(<< >>, n)))

\* parseNcxNavMap with the children given their parent's parentId instead of its id
RECURSIVE parseNcxNavMapKeepParent(_, _, _, _)
parseNcxNavMapKeepParent(navPoints, level, parentId, n) ==
    IF navPoints = << >> THEN Return(Tier(<< >>, n))
    ELSE IF ~Head(navPoints).hasLabel THEN Throw(TypeError)
    ELSE Then(parseNcxNavMapKeepParent(Head(navPoints).navPoint, level + 1, parentId, n + 1),
              LAMBDA children :
         Then(parseNcxNavMapKeepParent(Tail(navPoints), level, parentId, children.n),
              LAMBDA rest :
         Return(Tier(<<TocItem(n + 1, Head(navPoints).title, level, Head(navPoints).src,
                               parentId)>> \o children.items \o rest.items, rest.n))))

\* parseNcxNavMap with the entries of the following siblings put before the children's
RECURSIVE parseNcxNavMapSiblingsFirst(_, _, _, _)
parseNcxNavMapSiblingsFirst(navPoints, level, parentId, n) ==
    IF navPoints = << >> THEN Return(Tier(<< >>, n))
    ELSE IF ~Head(navPoints).hasLabel THEN Throw(TypeError)
    ELSE Then(parseNcxNavMapSiblingsFirst(Head(navPoints).navPoint, level + 1, n + 1, n + 1),
              LAMBDA children :
         Then(parseNcxNavMapSiblingsFirst(Tail(navPoints), level, parentId, children.n),
              LAMBDA rest :
         Return(Tier(<<TocItem(n + 1, Head(navPoints).title, level, Head(navPoints).src,
                               parentId)>> \o rest.items \o children.items, rest.n))))

\* parseNcxNavMap: pre-order walk of the navPoint forest
RECURSIVE parseNcxNavMap(_, _, _, _)
parseNcxNavMap(navPoints, level, parentId, n) ==
    IF navPoints = << >> THEN Return(Tier(<< >>, n))
    ELSE LET navPoint == Head(navPoints)
             id == n + 1
         IN IF ~navPoint.hasLabel THEN Throw(TypeError)
            ELSE LET tocItem == TocItem(id, navPoint.title, level, navPoint.src, parentId)
                     children == parseNcxNavMap(navPoint.navPoint, level + 1, id, n + 1)
                 IN IF children.threw THEN children
                    ELSE LET rest == parseNcxNavMap(Tail(navPoints), level, parentId,
                                                    children.value.n)
                         IN IF rest.threw THEN rest
                            ELSE Return(Tier(<<tocItem>> \o children.value.items
                                                \o rest.value.items, rest.value.n))

isNcxItem(item) == item.mediaType = NcxMediaType

commonNcxPaths(opfDir) ==
    << <<"toc.ncx">>,
       IF opfDir # << >> THEN opfDir \o <<"toc.ncx">> ELSE <<"toc.ncx">>,
       <<"OEBPS", "toc.ncx">>,
       <<"content", "toc.ncx">> >>

\* the body of extractTocFromNcxFile's try block
extractTocFromNcxFileTry(zip, manifest, opfDir, n) ==
    IF ~manifest.defined THEN Throw(TypeError)
    ELSE Let(orElse(hrefOfFirst(manifest.items, isNcxItem),
                    firstOrEmpty(firstExisting(zip, commonNcxPaths(opfDir)))),
             LAMBDA ncxPath :
         IF ncxPath = << >> THEN Return(Tier(<< >>, n))
         ELSE Let(firstExisting(zip, <<ncxPath, withOpfDir(opfDir, ncxPath)>>), LAMBDA found :
              IF found = << >> THEN Return(Tier(<< >>, n))
              ELSE Then(ReadText(zip, found[1]), LAMBDA ncxContent :
                   Then(parseStringPromise(ncxContent), LAMBDA ncxData :
                   IF ncxData.kind # "ncx" \/ ~ncxData.hasNavMap \/ ncxData.navPoint = << >>
                   THEN Return(Tier(<< >>, n))
                   ELSE parseNcxNavMap(ncxData.navPoint, 1, NullId, n)))))

extractTocFromNcxFile(zip, manifest, opfDir, n) ==
    Catch(extractTocFromNcxFileTry(zip, manifest, opfDir, n),
          LAMBDA error : Return(Tier(<< >>, n)))

\* parseHtmlTocContent
TocKeywordTokens == {"mulu", "contents", "Contents", "toc", "zhang", "chapter", "Chapter", "jie"}
DigitTokens == {"0", "1", "2", "3", "4", "5", "6", "7", "8", "9"}
ChapterTokens == {"zhang", "Chapter", "di"} \cup DigitTokens

hasTableOfContents(html) ==
    \/ Range(html.heading) \cap TocKeywordTokens # {}
    \/ \E i \in DOMAIN html.links : Range(html.links[i].text) \cap TocKeywordTokens # {}

RECURSIVE htmlItems(_, _)
htmlItems(links, n) ==
    IF links = << >> THEN Tier(<< >>, n)
    ELSE LET link == Head(links)
             title == trim(link.text)
             kept == /\ link.inDiv /\ link.href # << >> /\ link.text # << >>
                     /\ title # << >>
                     /\ Range(title) \cap ChapterTokens # {}
         IN IF kept
            THEN LET rest == htmlItems(Tail(links), n + 1) IN
                 Tier(<<TocItem(n + 1, title, 1, link.href, NullId)>> \o rest.items, rest.n)
            ELSE htmlItems(Tail(links), n)

parseHtmlTocContent(htmlContent, n) ==
    IF htmlContent.kind # "html" \/ ~hasTableOfContents(htmlContent) THEN Tier(<< >>, n)
    ELSE htmlItems(htmlContent.links, n)

isHtmlCandidate(item) ==
    \/ includes(item.mediaType, "html")
    \/ hrefIncludes(item.href, "toc")
    \/ hrefIncludes(item.href, "contents")
    \/ hrefIncludes(item.href, "index")

\* the loop of extractTocFromHtmlFiles over the manifest, inside its try block
RECURSIVE extractTocFromHtmlFilesLoop(_, _, _, _)
extractTocFromHtmlFilesLoop(zip, items, opfDir, n) ==
    IF items = << >> THEN Return(Tier(<< >>, n))
    ELSE LET item == Head(items)
             found == firstExisting(zip, <<item.href, withOpfDir(opfDir, item.href)>>)
         IN IF ~isHtmlCandidate(item) \/ found = << >>
            THEN extractTocFromHtmlFilesLoop(zip, Tail(items), opfDir, n)
            ELSE LET htmlContent == ReadText(zip, found[1]) IN
                 IF htmlContent.threw THEN htmlContent
                 ELSE LET extracted == parseHtmlTocContent(htmlContent.value, n) IN
                      IF extracted.items # << >> THEN Return(extracted)
                      ELSE extractTocFromHtmlFilesLoop(zip, Tail(items), opfDir, n)

\* the body of extractTocFromHtmlFiles' try block
extractTocFromHtmlFilesTry(zip, manifest, opfDir, n) ==
    IF ~manifest.defined THEN Throw(TypeError)
    ELSE extractTocFromHtmlFilesLoop(zip, manifest.items, opfDir, n)

extractTocFromHtmlFiles(zip, manifest, opfDir, n) ==
    Catch(extractTocFromHtmlFilesTry(zip, manifest, opfDir, n),
          LAMBDA error : Return(Tier(<< >>, n)))

\* extractTocFromSpine's loop with the title numbered by the entries made so far
\* instead of by the position in the spine
RECURSIVE spineItemsNumberedByEntry(_, _, _, _)
spineItemsNumberedByEntry(itemrefs, i, manifest, n) ==
    IF itemrefs = << >> THEN Return(Tier(<< >>, n))
    ELSE LET idref == Head(itemrefs) IN
         IF idref = "" THEN spineItemsNumberedByEntry(Tail(itemrefs), i + 1, manifest, n)
         ELSE IF ~manifest.defined THEN Throw(TypeError)
         ELSE LET hasId(item) == item.id = idref
                  manifestItem == firstWhere(manifest.items, hasId)
              IN IF manifestItem = << >>
                 THEN spineItemsNumberedByEntry(Tail(itemrefs), i + 1, manifest, n)
                 ELSE LET rest == spineItemsNumberedByEntry(Tail(itemrefs), i + 1, manifest,
                                                            n + 1) IN
                      IF rest.threw THEN rest
                      ELSE Return(Tier(
                             <<TocItem(n + 1, <<"di", ToString(n + 1), "zhang">>, 1,
                                       manifestItem[1].href, NullId)>> \o rest.value.items,
                             rest.value.n))

\* the loop of extractTocFromSpine, i the 0-based position of Head(itemrefs)
RECURSIVE spineItems(_, _, _, _)
spineItems(itemrefs, i, manifest, n) ==
    IF itemrefs = << >> THEN Return(Tier(<< >>, n))
    ELSE LET idref == Head(itemrefs) IN
         IF idref = "" THEN spineItems(Tail(itemrefs), i + 1, manifest, n)
         ELSE IF ~manifest.defined THEN Throw(TypeError)
         ELSE LET hasId(item) == item.id = idref
                  manifestItem == firstWhere(manifest.items, hasId)
              IN IF manifestItem = << >> THEN spineItems(Tail(itemrefs), i + 1, manifest, n)
                 ELSE LET rest == spineItems(Tail(itemrefs), i + 1, manifest, n + 1) IN
                      IF rest.threw THEN rest
                      ELSE Return(Tier(
                             <<TocItem(n + 1, <<"di", ToString(i + 1), "zhang">>, 1,
                                       manifestItem[1].href, NullId)>> \o rest.value.items,
                             rest.value.n))

\* the body of extractTocFromSpine's try block
extractTocFromSpineTry(opfData, n) ==
    Then(spineOf(opfData), LAMBDA spine :
    Then(manifestOf(opfData), LAMBDA manifest :
    IF ~spine.defined THEN Return(Tier(<< >>, n))
    ELSE spineItems(spine.items, 0, manifest, n)))

extractTocFromSpineNoCatch(opfData, n) == extractTocFromSpineTry(opfData, n)

extractTocFromSpine(opfData, n) ==
    Catch(extractTocFromSpineTry(opfData, n), LAMBDA error : Return(Tier(<< >>, n)))

\* the body of extractTableOfContents' try block
extractTableOfContentsTry(zip, opfData, opfDir, n) ==
    Then(manifestOf(opfData), LAMBDA manifest :
    Then(extractTocFromNavFile(zip, manifest, opfDir, n), LAMBDA navTocItems :
    IF navTocItems.items # << >> THEN Return(navTocItems)
    ELSE Then(extractTocFromNcxFile(zip, manifest, opfDir, n), LAMBDA ncxTocItems :
         IF ncxTocItems.items # << >> THEN Return(ncxTocItems)
         ELSE Then(extractTocFromHtmlFiles(zip, manifest, opfDir, n), LAMBDA htmlTocItems :
              IF htmlTocItems.items # << >> THEN Return(htmlTocItems)
              ELSE extractTocFromSpine(opfData, n)))))

extractTableOfContents(zip, opfData, opfDir, n, cfg) ==
    IF ~cfg.extractToc THEN Return(Tier(<< >>, n))
    ELSE Catch(extractTableOfContentsTry(zip, opfData, opfDir, n),
               LAMBDA error : extractTocFromSpine(opfData, n))

(***************************************************************************)
(* EPUBParser.extractCoverInfo                                             *)
(***************************************************************************)
\* the status texts of extractCoverInfo, transliterated
AltNoCover == <<"wu fengmian tupian">>
AltFileMissing == <<"fengmian tupian wenjian bu cunzai">>
AltEmptyData == <<"fengmian tupian shuju wei kong">>
AltCover == <<"shuji fengmian">>
AltFailed == <<"fengmian tiqu shibai">>

Undefined == [kind |-> "undefined"]
CoverInfo(image, alt) == [cover_image |-> image, cover_alt_text |-> alt]

\* item.$?.id === coverImageId, where coverImageId is metadata.cover: xml2js stores the
\* children of an element as an array, and a string is never === an array
idEqualsCoverArray(id, coverArray) == FALSE

isCoverImageItem(item) == item.properties = "cover-image" \/ item.id = "cover-image"

isCoverNamedImage(item) ==
    /\ isImageType(item.mediaType)
    /\ includes(lowerSeg(item.id), "cover") \/ hrefIncludes(item.href, "cover")

isImageItem(item) == isImageType(item.mediaType)

\* method 1: metadata.cover, resolved against the manifest by id
coverByMetadataKey(metadata, items) ==
    IF metadata.cover = << >> THEN << >>
    ELSE LET matches(item) == idEqualsCoverArray(item.id, metadata.cover) IN
         hrefOfFirst(items, matches)

\* method 3: the first <meta name="cover" content=id> whose id is in the manifest
coverByMetaTag(metadata, items) ==
    LET resolves(meta) == /\ meta.name = "cover" /\ meta.content # ""
                          /\ \E i \in DOMAIN items : items[i].id = meta.content
        hit == firstWhere(metadata.meta, resolves)
    IN IF hit = << >> THEN << >>
       ELSE LET matches(item) == item.id = hit[1].content IN hrefOfFirst(items, matches)

commonCoverNames == <<"cover.jpg", "cover.jpeg", "cover.png", "cover.gif", "cover.webp">>

\* method 5: a conventional file name in the package directory
coverByCommonName(zip, opfDir) ==
    LET present(name) == HasEntry(zip, IF opfDir # << >> THEN opfDir \o <<name>> ELSE <<name>>)
        hit == firstWhere(commonCoverNames, present)
    IN IF hit = << >> THEN << >> ELSE <<hit[1]>>

\* methods 1 to 6 in order: the candidate coverImagePath, '' if none
coverImagePathOf(zip, metadata, items, opfDir) ==
    orElse(coverByMetadataKey(metadata, items),
    orElse(hrefOfFirst(items, isCoverImageItem),
    orElse(coverByMetaTag(metadata, items),
    orElse(hrefOfFirst(items, isCoverNamedImage),
    orElse(coverByCommonName(zip, opfDir),
           hrefOfFirst(items, isImageItem))))))

commonDirs == <<"OEBPS", "content", "images", "img">>

\* strategy 5 of the path search: dir/path, and dir/fileName when path has a directory
RECURSIVE commonDirPaths(_, _)
commonDirPaths(dirs, coverImagePath) ==
    IF dirs = << >> THEN << >>
    ELSE LET fileName == <<coverImagePath[Len(coverImagePath)]>> IN
         <<<<Head(dirs)>> \o coverImagePath>>
         \o (IF fileName # coverImagePath THEN <<<<Head(dirs)>> \o fileName>> ELSE << >>)
         \o commonDirPaths(Tail(dirs), coverImagePath)

\* the search with the package-directory-prefixed path ahead of the raw path
pathsToTryPackageFirst(coverImagePath, opfDir) ==
    (IF opfDir # << >> /\ opfDir # <<".">> THEN <<opfDir \o coverImagePath>> ELSE << >>)
    \o <<coverImagePath>>
    \o (IF Head(coverImagePath) = "." THEN <<Tail(coverImagePath)>> ELSE << >>)
    \o (IF Head(coverImagePath) # "." THEN <<<<".">> \o coverImagePath>> ELSE << >>)
    \o commonDirPaths(commonDirs, coverImagePath)

pathsToTry(coverImagePath, opfDir) ==
    <<coverImagePath>>
    \o (IF opfDir # << >> /\ opfDir # <<".">> THEN <<opfDir \o coverImagePath>> ELSE << >>)
    \o (IF Head(coverImagePath) = "." THEN <<Tail(coverImagePath)>> ELSE << >>)
    \o (IF Head(coverImagePath) # "." THEN <<<<".">> \o coverImagePath>> ELSE << >>)
    \o commonDirPaths(commonDirs, coverImagePath)

\* sharp(imageBuffer).resize(...).jpeg(...).toBuffer(), then the data URI
processImage(content) ==
    IF content.kind = "image" /\ content.decodable
    THEN Return(<<"data:image/jpeg;base64,", content.data>>)
    ELSE Throw(<<"Input buffer contains unsupported image format">>)

\* the try block without the early return for an empty coverImagePath: the path search
\* runs on the empty path and finds no entry
extractCoverInfoTryNoEarlyReturn(zip, opfData, opfDir) ==
    Then(manifestOf(opfData), LAMBDA manifest :
    Then(metadataOf(opfData), LAMBDA metadata :
    IF ~manifest.defined THEN Throw(TypeError)
    ELSE Let(coverImagePathOf(zip, metadata, manifest.items, opfDir), LAMBDA coverImagePath :
         IF coverImagePath = << >> THEN Return(CoverInfo(<< >>, AltFileMissing))
         ELSE Let(firstExisting(zip, pathsToTry(coverImagePath, opfDir)), LAMBDA found :
              IF found = << >> THEN Return(CoverInfo(<< >>, AltFileMissing))
              ELSE Then(ReadText(zip, found[1]), LAMBDA coverFile :
                   IF coverFile.kind = "image" /\ coverFile.empty
                   THEN Return(CoverInfo(<< >>, AltEmptyData))
                   ELSE Then(processImage(coverFile), LAMBDA coverImage :
                        Return(CoverInfo(coverImage, AltCover))))))))

\* the body of extractCoverInfo's try block
extractCoverInfoTry(zip, opfData, opfDir) ==
    Then(manifestOf(opfData), LAMBDA manifest :
    Then(metadataOf(opfData), LAMBDA metadata :
    IF ~manifest.defined THEN Throw(TypeError)
    ELSE Let(coverImagePathOf(zip, metadata, manifest.items, opfDir), LAMBDA coverImagePath :
         IF coverImagePath = << >> THEN Return(CoverInfo(<< >>, AltNoCover))
         ELSE Let(firstExisting(zip, pathsToTry(coverImagePath, opfDir)), LAMBDA found :
              IF found = << >> THEN Return(CoverInfo(<< >>, AltFileMissing))
              ELSE Then(ReadText(zip, found[1]), LAMBDA coverFile :
                   IF coverFile.kind = "image" /\ coverFile.empty
                   THEN Return(CoverInfo(<< >>, AltEmptyData))
                   ELSE Then(processImage(coverFile), LAMBDA coverImage :
                        Return(CoverInfo(coverImage, AltCover))))))))

extractCoverInfoNoCatch(zip, opfData, opfDir, cfg) ==
    IF ~cfg.extractCover THEN Return(Undefined)
    ELSE extractCoverInfoTry(zip, opfData, opfDir)

\* extractCoverInfo answering undefined when no candidate was found
extractCoverInfoAbsentWhenNotFound(zip, opfData, opfDir, cfg) ==
    IF ~cfg.extractCover THEN Return(Undefined)
    ELSE Catch(Then(extractCoverInfoTry(zip, opfData, opfDir), LAMBDA coverInfo :
                    IF coverInfo.cover_alt_text = AltNoCover THEN Return(Undefined)
                    ELSE Return(coverInfo)),
               LAMBDA error : Return(CoverInfo(<< >>, AltFailed)))

extractCoverInfo(zip, opfData, opfDir, cfg) ==
    IF ~cfg.extractCover THEN Return(Undefined)
    ELSE Catch(extractCoverInfoTry(zip, opfData, opfDir),
               LAMBDA error : Return(CoverInfo(<< >>, AltFailed)))

(***************************************************************************)
(* BaseParser.createError / createSuccess and EPUBParser.parse             *)
(***************************************************************************)
InvalidEpubMessage == <<"wuxiao de EPUB wenjian">>
ParseFailedPrefix == <<"jiexi shibai: ">>
FileNotFoundPrefix == <<"wenjian bu cunzai: ">>

EmptyBookInfo ==
    [title |-> << >>, author |-> << >>, publisher |-> << >>, isbn |-> << >>,
     publication_date |-> << >>, language |-> << >>]

createError(message) ==
    [bookInfo |-> EmptyBookInfo, tableOfContents |-> << >>, error |-> message,
     success |-> FALSE]

createSuccess(bookInfo, coverInfo, tableOfContents) ==
    [bookInfo |-> bookInfo, tableOfContents |-> tableOfContents, success |-> TRUE,
     coverInfo |-> coverInfo]

\* EPUBParser.getFileContent
getFileContent(zip, filePath) ==
    IF ~HasEntry(zip, filePath) THEN Throw(FileNotFoundPrefix \o filePath)
    ELSE ReadText(zip, filePath)

\* steps 3 and 4 of parse: the package document path and the parsed package document
readPackage(zip) ==
    Then(getFileContent(zip, ContainerPath), LAMBDA containerXml :
    Then(parseStringPromise(containerXml), LAMBDA containerData :
    IF containerData.kind # "container" THEN Throw(TypeError)
    ELSE Then(getFileContent(zip, containerData.fullPath), LAMBDA opfContent :
         Then(parseStringPromise(opfContent), LAMBDA opfData :
         Return([opfData |-> opfData, opfDir |-> dirname(containerData.fullPath)])))))

\* steps 5 to 7 of parse and the success result; the value is [result, n]
parsePackage(zip, opfData, opfDir, n, cfg) ==
    Then(extractBookInfo(opfData), LAMBDA bookInfo :
    Then(extractCoverInfo(zip, opfData, opfDir, cfg), LAMBDA coverInfo :
    Then(extractTableOfContents(zip, opfData, opfDir, n, cfg), LAMBDA tableOfContents :
    Return([result |-> createSuccess(bookInfo, coverInfo, tableOfContents.items),
            n |-> tableOfContents.n]))))

\* the body of parse's try block
parseTry(f, n, cfg) ==
    Then(validate(f), LAMBDA isValid :
    IF ~isValid THEN Return([result |-> createError(InvalidEpubMessage), n |-> n])
    ELSE Then(readPackage(f.disk.zip.entries), LAMBDA package :
         parsePackage(f.disk.zip.entries, package.opfData, package.opfDir, n, cfg)))

parseNoCatch(f, n, cfg) == parseTry(f, n, cfg)

\* parse that skips the cover once an earlier call has generated ids
parseCoverOnFreshParserOnly(f, n, cfg) ==
    Catch(parseTry(f, n, IF n = 0 THEN cfg ELSE [cfg EXCEPT !.extractCover = FALSE]),
          LAMBDA message : Return([result |-> createError(ParseFailedPrefix \o message),
                                   n |-> n]))

parse(f, n, cfg) ==
    Catch(parseTry(f, n, cfg),
          LAMBDA message : Return([result |-> createError(ParseFailedPrefix \o message),
                                   n |-> n]))

(***************************************************************************)
(* ChapterSplitter: text extraction.  The markup of a content document is  *)
(* a sequence of tokens: tags, entities, whitespace characters, "han" (one *)
(* CJK ideograph), ASCII words and punctuation.                            *)
(***************************************************************************)
RemovedBlocks == {"<script>..</script>", "<style>..</style>"}
BlockCloseTags == {"</div>", "</p>", "</h1>", "</li>", "</section>", "</article>"}
BreakTags == {"<br/>", "<hr/>"}
OtherTags == {"<div>", "<p>", "<h1>", "<li>", "<a>", "</a>", "<span>", "</span>", "<body>"}
WordTokens == {"word", "Chapter", "Part", "I"}

decodeEntity(t) ==
    CASE t = "&nbsp;" -> " "
      [] t = "&amp;" -> "&"
      [] t = "&lt;" -> "<"
      [] t = "&gt;" -> ">"
      [] t = "&quot;" -> "\""
      [] t = "&hellip;" -> "..."
      [] OTHER -> t

RECURSIVE extractTextFromHtml(_)
extractTextFromHtml(html) ==
    IF html = << >> THEN << >>
    ELSE LET t == Head(html)
             rest == extractTextFromHtml(Tail(html))
         IN IF t \in RemovedBlocks \cup OtherTags THEN rest
            ELSE IF t \in BlockCloseTags \cup BreakTags THEN <<"\n">> \o rest
            ELSE <<decodeEntity(t)>> \o rest

\* text.replace(/\s+/g, ' ')
RECURSIVE collapseWhiteSpace(_)
collapseWhiteSpace(text) ==
    IF text = << >> THEN << >>
    ELSE IF Head(text) \in WhiteSpace
         THEN <<" ">> \o collapseWhiteSpace(trimStart(text))
         ELSE <<Head(text)>> \o collapseWhiteSpace(Tail(text))

\* text.replace(/\n\s*\n/g, '\n'): a line feed, white space, a line feed become one
RECURSIVE collapseBlankLines(_)
collapseBlankLines(text) ==
    IF text = << >> THEN << >>
    ELSE LET run == Len(text) - Len(trimStart(text))
             lastLf == IF \E i \in 2..run : text[i] = "\n"
                       THEN CHOOSE i \in 2..run : text[i] = "\n" /\ \A j \in 2..run : text[j] = "\n" => j <= i
                       ELSE 0
         IN IF Head(text) = "\n" /\ lastLf > 0
            THEN <<"\n">> \o collapseBlankLines(SubSeq(text, lastLf + 1, Len(text)))
            ELSE <<Head(text)>> \o collapseBlankLines(Tail(text))

\* text.replace(/\n/g, '\n\n')
RECURSIVE doubleLineFeeds(_)
doubleLineFeeds(text) ==
    IF text = << >> THEN << >>
    ELSE IF Head(text) = "\n" THEN <<"\n", "\n">> \o doubleLineFeeds(Tail(text))
    ELSE <<Head(text)>> \o doubleLineFeeds(Tail(text))

cleanText(text) == doubleLineFeeds(trim(collapseBlankLines(collapseWhiteSpace(text))))

\* countWords: CJK ideographs plus ASCII words
countWords(text) == Cardinality({i \in DOMAIN text : text[i] = "han" \/ text[i] \in WordTokens})

Ellipsis == <<"...">>

(***************************************************************************)
(* ChapterSplitter: part titles                                            *)
(***************************************************************************)
HanNumerals == {"yi", "er", "san", "si", "wu"} \cup DigitTokens
RomanOrDigit == {"I", "V", "X", "i", "v", "x"} \cup DigitTokens

\* /di[numerals]+bufen/
matchesDiNumBufen(title) ==
    \E i, j \in DOMAIN title :
        /\ j > i + 1 /\ title[i] = "di" /\ title[j] = "bufen"
        /\ \A k \in (i + 1)..(j - 1) : title[k] \in HanNumerals

\* /Part\s+[IVX\d]+/i
matchesPartRoman(title) ==
    \E i, j \in DOMAIN title :
        /\ j > i + 1 /\ title[i] \in {"Part", "part", "PART"} /\ title[j] \in RomanOrDigit
        /\ \A k \in (i + 1)..(j - 1) : title[k] \in WhiteSpace

isPartTitle(title) ==
    matchesDiNumBufen(title) \/ matchesPartRoman(title) \/ "bufen" \in Range(title)

\* title.includes(di + numeral + bufen)
includesPart(title, numeral) ==
    \E i \in DOMAIN title :
        i + 2 <= Len(title) /\ title[i] = "di" /\ title[i + 1] = numeral /\ title[i + 2] = "bufen"

NoRange == [start |-> 1, end |-> 0]

\* getChapterRangeForPart; null is the empty range
getChapterRangeForPart(partTitle) ==
    IF includesPart(partTitle, "yi") THEN [start |-> 2, end |-> 4]
    ELSE IF includesPart(partTitle, "er") THEN [start |-> 5, end |-> 8]
    ELSE IF includesPart(partTitle, "san") THEN [start |-> 9, end |-> 11]
    ELSE IF includesPart(partTitle, "si") THEN [start |-> 12, end |-> 15]
    ELSE IF includesPart(partTitle, "wu") THEN [start |-> 16, end |-> 17]
    ELSE NoRange

\* the chapterFiles table: chapter n is text/part00NN.html with NN = n + 4
chapterFiles(chapterNum) ==
    <<"text", CASE chapterNum = 2 -> "part0006.html" [] chapterNum = 3 -> "part0007.html"
                [] chapterNum = 4 -> "part0008.html" [] chapterNum = 5 -> "part0009.html"
                [] chapterNum = 6 -> "part0010.html" [] chapterNum = 7 -> "part0011.html"
                [] chapterNum = 8 -> "part0012.html" [] chapterNum = 9 -> "part0013.html"
                [] chapterNum = 10 -> "part0014.html" [] chapterNum = 11 -> "part0015.html"
                [] chapterNum = 12 -> "part0016.html" [] chapterNum = 13 -> "part0017.html"
                [] chapterNum = 14 -> "part0018.html" [] chapterNum = 15 -> "part0019.html"
                [] chapterNum = 16 -> "part0020.html" [] chapterNum = 17 -> "part0021.html">>

(***************************************************************************)
(* ChapterSplitter: initialize, splitChapters, dispose                     *)
(***************************************************************************)
NullZip == [kind |-> "null"]
NewSplitter == [zip |-> NullZip, opfDir |-> << >>]

InitFailedPrefix == <<"chushihua zhangjie chaifenqi shibai: ">>
NotInitializedMessage == <<"zhangjie chaifenqi wei chushihua">>

\* initialize: the fields after the call and whether it threw
initialize(sp, f) ==
    IF f.disk.kind = "absent" \/ ~f.disk.readable
    THEN [splitter |-> sp, out |-> Throw(InitFailedPrefix \o <<"ENOENT">>)]
    ELSE IF f.disk.zip.kind # "zip"
    THEN [splitter |-> sp, out |-> Throw(InitFailedPrefix \o <<"not a zip file">>)]
    ELSE LET loaded == [sp EXCEPT !.zip = f.disk.zip]
             containerXml == getFileContent(f.disk.zip.entries, ContainerPath)
             containerData == IF containerXml.threw THEN containerXml
                              ELSE parseStringPromise(containerXml.value)
         IN IF containerData.threw
            THEN [splitter |-> loaded, out |-> Throw(InitFailedPrefix \o containerData.msg)]
            ELSE IF containerData.value.kind # "container"
                    \/ containerData.value.fullPath = << >>
            THEN [splitter |-> loaded, out |-> Throw(InitFailedPrefix \o TypeError)]
            ELSE [splitter |-> [loaded EXCEPT !.opfDir = dirname(containerData.value.fullPath)],
                  out |-> Return(TRUE)]

dispose(sp) == [sp EXCEPT !.zip = NullZip, !.opfDir = << >>]

\* href.split('#')[0]
RECURSIVE stripFragment(_)
stripFragment(href) ==
    IF href = << >> \/ Head(href) = "#" THEN << >>
    ELSE <<Head(href)>> \o stripFragment(Tail(href))

\* the fullPath of extractChapterContent and extractPartContent
fullPathOf(opfDir, href) ==
    IF opfDir = << >> \/ opfDir = <<".">> THEN href ELSE opfDir \o href

\* file.async('text') of a content document: its markup
markupOf(content) == IF content.kind = "html" THEN content.markup ELSE << >>

\* extractChapterRangeContent with the files of the range taken from the last to the first
RECURSIVE extractChapterRangeContentDescending(_, _, _)
extractChapterRangeContentDescending(zip, chapterNum, end) ==
    IF chapterNum > end THEN << >>
    ELSE LET htmlContent == getFileContent(zip, chapterFiles(chapterNum))
             textContent == IF htmlContent.threw THEN << >>
                            ELSE extractTextFromHtml(markupOf(htmlContent.value))
         IN extractChapterRangeContentDescending(zip, chapterNum + 1, end)
            \o (IF trim(textContent) # << >> THEN <<"\n", "\n">> \o textContent ELSE << >>)

\* extractChapterRangeContent: the files of the range, each read in its own try block
RECURSIVE extractChapterRangeContent(_, _, _)
extractChapterRangeContent(zip, chapterNum, end) ==
    IF chapterNum > end THEN << >>
    ELSE LET htmlContent == getFileContent(zip, chapterFiles(chapterNum))
             textContent == IF htmlContent.threw THEN << >>
                            ELSE extractTextFromHtml(markupOf(htmlContent.value))
         IN (IF trim(textContent) # << >> THEN <<"\n", "\n">> \o textContent ELSE << >>)
            \o extractChapterRangeContent(zip, chapterNum + 1, end)

\* the body of extractPartContent's try block
extractPartContentTry(zip, opfDir, partItem) ==
    LET startHtmlContent == getFileContent(zip, fullPathOf(opfDir, stripFragment(partItem.href)))
    IN IF startHtmlContent.threw THEN startHtmlContent
       ELSE LET combinedContent == extractTextFromHtml(markupOf(startHtmlContent.value))
                chapterRange == getChapterRangeForPart(partItem.title)
                additionalContent == extractChapterRangeContent(zip, chapterRange.start,
                                                                chapterRange.end)
            IN Return(IF additionalContent # << >>
                      THEN combinedContent \o <<"\n", "\n">> \o additionalContent
                      ELSE combinedContent)

extractPartContent(zip, opfDir, partItem) ==
    LET r == extractPartContentTry(zip, opfDir, partItem) IN
    IF r.threw THEN << >> ELSE r.value

ChapterContent(tocItem, textContent) ==
    [index |-> 0, title |-> tocItem.title, content |-> textContent,
     wordCount |-> countWords(textContent), level |-> tocItem.level]

\* content.substring(0, maxChapterLength) + '...' when the option is set and exceeded
truncate(textContent, options) ==
    IF options.maxChapterLength > 0 /\ Len(textContent) > options.maxChapterLength
    THEN SubSeq(textContent, 1, options.maxChapterLength) \o Ellipsis
    ELSE textContent

\* extractChapterContent: a sequence holding the chapter, empty for null
extractChapterContent(zip, opfDir, tocItem, options) ==
    IF tocItem.href = << >> THEN << >>
    ELSE IF isPartTitle(tocItem.title)
    THEN <<ChapterContent(tocItem,
             truncate(cleanText(extractPartContent(zip, opfDir, tocItem)), options))>>
    ELSE LET htmlContent == getFileContent(zip, fullPathOf(opfDir, stripFragment(tocItem.href)))
         IN IF htmlContent.threw THEN << >>
            ELSE <<ChapterContent(tocItem,
                     truncate(cleanText(extractTextFromHtml(markupOf(htmlContent.value))),
                              options))>>

filterTocByLevel(tableOfContents, targetLevel) ==
    SelectSeq(tableOfContents, LAMBDA item : item.level = targetLevel)

RECURSIVE collectChapters(_, _, _, _)
collectChapters(zip, opfDir, targetTocItems, options) ==
    IF targetTocItems = << >> THEN << >>
    ELSE extractChapterContent(zip, opfDir, Head(targetTocItems), options)
         \o collectChapters(zip, opfDir, Tail(targetTocItems), options)

\* splitChapters without the final forEach: every chapter keeps its temporary index
reindexNone(chapters) == chapters

\* chapters.forEach((chapter, index) => chapter.index = index)
reindex(chapters) == [i \in DOMAIN chapters |-> [chapters[i] EXCEPT !.index = i - 1]]

splitChapters(sp, tableOfContents, options) ==
    IF sp.zip.kind = "null" THEN Throw(NotInitializedMessage)
    ELSE Return(reindex(collectChapters(sp.zip.entries, sp.opfDir,
                                        filterTocByLevel(tableOfContents, options.level),
                                        options)))

(***************************************************************************)
(* ChapterSplitter.getChapterStats                                         *)
(***************************************************************************)
\* Math.round(a / b) for a >= 0 and b > 0: halves round up
roundDiv(a, b) == (2 * a + b) \div (2 * b)

\* wordCounts: index, title and the word count of each chapter's content
wordCountsOf(chapters) ==
    [i \in DOMAIN chapters |->
        [index |-> i - 1, title |-> chapters[i].title,
         wordCount |-> countWords(chapters[i].content)]]

RECURSIVE sumWordCounts(_)
sumWordCounts(wordCounts) ==
    IF wordCounts = << >> THEN 0
    ELSE Head(wordCounts).wordCount + sumWordCounts(Tail(wordCounts))

\* wordCounts.reduce((max, item) => item.wordCount > max.wordCount ? item : max)
RECURSIVE longestOf(_, _)
longestOf(max, wordCounts) ==
    IF wordCounts = << >> THEN max
    ELSE longestOf(IF Head(wordCounts).wordCount > max.wordCount THEN Head(wordCounts) ELSE max,
                   Tail(wordCounts))

\* wordCounts.reduce((min, item) => item.wordCount < min.wordCount ? item : min)
RECURSIVE shortestOf(_, _)
shortestOf(min, wordCounts) ==
    IF wordCounts = << >> THEN min
    ELSE shortestOf(IF Head(wordCounts).wordCount < min.wordCount THEN Head(wordCounts) ELSE min,
                    Tail(wordCounts))

EmptyChapterStat == [index |-> 0, title |-> << >>, wordCount |-> 0]

\* getChapterStats with totalWords summed over the first chapter only
getChapterStatsFirstOnly(chapters) ==
    IF chapters = << >>
    THEN [totalChapters |-> 0, totalWords |-> 0, averageWords |-> 0,
          longestChapter |-> EmptyChapterStat, shortestChapter |-> EmptyChapterStat]
    ELSE [totalChapters |-> Len(chapters),
          totalWords |-> wordCountsOf(chapters)[1].wordCount,
          averageWords |-> roundDiv(wordCountsOf(chapters)[1].wordCount, Len(chapters)),
          longestChapter |-> longestOf(wordCountsOf(chapters)[1], Tail(wordCountsOf(chapters))),
          shortestChapter |-> shortestOf(wordCountsOf(chapters)[1], Tail(wordCountsOf(chapters)))]

getChapterStats(chapters) ==
    IF chapters = << >>
    THEN [totalChapters |-> 0, totalWords |-> 0, averageWords |-> 0,
          longestChapter |-> EmptyChapterStat, shortestChapter |-> EmptyChapterStat]
    ELSE [totalChapters |-> Len(chapters),
          totalWords |-> sumWordCounts(wordCountsOf(chapters)),
          averageWords |-> roundDiv(sumWordCounts(wordCountsOf(chapters)), Len(chapters)),
          longestChapter |-> longestOf(wordCountsOf(chapters)[1], Tail(wordCountsOf(chapters))),
          shortestChapter |-> shortestOf(wordCountsOf(chapters)[1], Tail(wordCountsOf(chapters)))]

(***************************************************************************)
(* FileManager: updateSession and saveSession; the analyze route's         *)
(* computation of the stored analysis.  One fileId is followed.  A session *)
(* is a record; parseResult is kept as its chapterAnalysis, the chapters   *)
(* being fixed, and a chapter is named by its index.                       *)
(***************************************************************************)
NoSession == [kind |-> "none"]
Null == [kind |-> "null"]
SessionMissingMessage == <<"huihua bu cunzai">>

\* {...session, ...updates}
spread(session, updates) ==
    [k \in DOMAIN session \cup DOMAIN updates |->
        IF k \in DOMAIN updates THEN updates[k] ELSE session[k]]

\* updateSession up to its await of writeFile: the session it has put into the map
updateSession(stored, updates) ==
    IF stored.kind # "session" THEN Throw(SessionMissingMessage)
    ELSE Return(spread(stored, updates))

\* chapterIndexes.map(index => valid ? chapters[index] : null).filter(Boolean), or
\* every chapter without chapterIndexes
targetChapters(chapterIndexes, chapterCount) ==
    IF chapterIndexes.given
    THEN SelectSeq(chapterIndexes.list, LAMBDA index : index >= 0 /\ index < chapterCount)
    ELSE [i \in 1..chapterCount |-> i - 1]

\* the provider's results for the target chapters, in their order
analysisResultsOf(request, targets) ==
    [i \in DOMAIN targets |-> [kind |-> "analysis", request |-> request,
                               chapter |-> targets[i]]]

\* session.parseResult?.chapterAnalysis || new Array(chapters.length).fill(null)
existingAnalysis(session, chapterCount) ==
    IF session.chapterAnalysis.defined THEN session.chapterAnalysis.items
    ELSE [i \in 1..chapterCount |-> Null]

\* array[index] = value: an index past the end lengthens the array, the positions in
\* between being holes that read as undefined
setAt(array, index, value) ==
    IF index < Len(array) THEN [array EXCEPT ![index + 1] = value]
    ELSE array \o [i \in 1..(index - Len(array)) |-> Undefined] \o <<value>>

\* chapterIndexes.forEach((originalIndex, resultIndex) => ...), from position i on
RECURSIVE mapBack(_, _, _, _, _)
mapBack(final, list, i, analysisResults, chapterCount) ==
    IF i > Len(list) THEN final
    ELSE mapBack(IF i - 1 < Len(analysisResults) /\ list[i] >= 0 /\ list[i] < chapterCount
                 THEN setAt(final, list[i], analysisResults[i])
                 ELSE final,
                 list, i + 1, analysisResults, chapterCount)

\* finalAnalysisResults of the analyze route
finalAnalysisResults(session, chapterIndexes, analysisResults, chapterCount) ==
    IF chapterIndexes.given /\ Len(chapterIndexes.list) > 0
    THEN mapBack(existingAnalysis(session, chapterCount), chapterIndexes.list, 1,
                 analysisResults, chapterCount)
    ELSE analysisResults

(***************************************************************************)
(* Inputs: entry contents, package documents and archives                  *)
(***************************************************************************)
MaxNavPoints == 3    \* navPoints in a legacy navigation map
MaxNavLis == 2       \* list items in a navigation document
MaxSpine == 2        \* itemrefs in a spine
MaxParseCalls == 2   \* parse() calls on one file
MaxLevel == 3        \* level option of splitChapters
MaxChapterLength == 4   \* maxChapterLength option of splitChapters, when set
MaxChapters == 2     \* chapters of the session an analyze request works on
MaxRequests == 2     \* analyze requests in flight on one session
MaxIndexes == 2      \* entries of chapterIndexes in an analyze request
MaxContributors == 2 \* dc:contributor elements of a package document

TextEntry(t) == [kind |-> "text", text |-> t]
ContainerXml(fullPath) == [kind |-> "container", fullPath |-> fullPath]
Garbage == [kind |-> "garbage"]
Corrupt == [kind |-> "corrupt"]
Image(decodable) == [kind |-> "image", empty |-> FALSE, decodable |-> decodable, data |-> "JPEG1"]
Nav(lis) == [kind |-> "nav", lis |-> lis]
Ncx(hasNavMap, navPoint) == [kind |-> "ncx", hasNavMap |-> hasNavMap, navPoint |-> navPoint]
Html(heading, links, markup) ==
    [kind |-> "html", heading |-> heading, links |-> links, markup |-> markup]
Absent == [kind |-> "absent"]

Item(id, href, mediaType, properties) ==
    [id |-> id, href |-> href, mediaType |-> mediaType, properties |-> properties]

\* the archive holding the given <<path, content>> pairs
ZipOf(pairs) == [p \in {e[1] : e \in pairs} |-> (CHOOSE e \in pairs : e[1] = p)[2]]

\* all sequences over S of length at most n
SeqsUpTo(S, n) == UNION {[1..k -> S] : k \in 0..n}

\* navPoint forests with exactly n navPoints, labelled from Labels
RECURSIVE ForestsOf(_, _)
ForestsOf(n, Labels) ==
    IF n = 0 THEN {<< >>}
    ELSE UNION { { <<[l EXCEPT !.navPoint = kids]>> \o rest :
                     l \in Labels, kids \in ForestsOf(k - 1, Labels),
                     rest \in ForestsOf(n - k, Labels) } : k \in 1..n }

Forests(Labels) == UNION {ForestsOf(n, Labels) : n \in 1..MaxNavPoints}

NavPoint(hasLabel, title, src) ==
    [hasLabel |-> hasLabel, title |-> title, src |-> src, navPoint |-> << >>]

ChapterMarkup ==
    <<"<body>", "<h1>", "han", "han", "</h1>", "\n", "<p>", "word", " ", "word", "</p>",
      "<p>", "han", "&amp;", "han", "</p>", "</body>">>
PartMarkup == <<"<p>", "han", "word", "</p>">>
LaterPartMarkup == <<"<p>", "word", "han", "</p>">>

ChapterFile == Html(<< >>, << >>, ChapterMarkup)

FullMetadata ==
    [kind |-> "present",
     title |-> << <<"shili shu">> >>, creator |-> << <<"zhang san">> >>,
     publisher |-> << <<"chubanshe">> >>, language |-> << <<"zh-CN">> >>,
     identifier |-> << <<"isbn:1">> >>, date |-> << <<"2020">> >>,
     contributor |-> << [role |-> "", opfRole |-> "trl", text |-> <<"li si">>] >>,
     cover |-> << >>, meta |-> << >>]

BareMetadata ==
    [kind |-> "present", title |-> << >>, creator |-> << >>, publisher |-> << >>,
     language |-> << >>, identifier |-> << >>, date |-> << >>, contributor |-> << >>,
     cover |-> << >>, meta |-> << >>]

\* every element present with empty text, the contributor a translator without text
EmptyTextMetadata ==
    [kind |-> "present", title |-> << << >> >>, creator |-> << << >> >>,
     publisher |-> << << >> >>, language |-> << << >> >>, identifier |-> << << >> >>,
     date |-> << << >> >>,
     contributor |-> << [role |-> "trl", opfRole |-> "", text |-> << >>] >>,
     cover |-> << >>, meta |-> << >>]

XhtmlType == "application/xhtml+xml"

\* a book: the manifest items and the entries its choices give, hrefs relative to dir
BookItems(b) ==
    (IF b.nav.declared THEN <<Item("nav", <<"nav.xhtml">>, XhtmlType, "nav")>> ELSE << >>)
    \o (IF b.ncx.declared THEN <<Item("ncx", <<"toc.ncx">>, NcxMediaType, "")>> ELSE << >>)
    \o (IF b.tocPage # << >> THEN <<Item("tocpage", <<"toc.html">>, XhtmlType, "")>> ELSE << >>)
    \o <<Item("c1", <<"c1.html">>, XhtmlType, ""), Item("c2", <<"c2.html">>, XhtmlType, "")>>
    \o (IF b.cover # "none"
        THEN <<Item("cover-img", <<"images", "cover.jpg">>, "image/jpeg", "cover-image")>>
        ELSE << >>)
    \o b.extraItems

BookOpf(b) ==
    [kind |-> "opf", hasPackage |-> b.hasPackage, metadata |-> b.metadata,
     manifest |-> CASE b.manifest = "absent" -> Absent
                    [] b.manifest = "empty" -> [kind |-> "present", item |-> << >>]
                    [] OTHER -> [kind |-> "present", item |-> BookItems(b)],
     spine |-> b.spine]

BookDir(b) == IF b.opfAt = "root" THEN << >> ELSE <<"OEBPS">>

BookEntries(b) ==
    LET dir == BookDir(b) IN
    {<<MimetypePath, b.mimetype[i]>> : i \in DOMAIN b.mimetype}
    \cup {<<ContainerPath, b.container[i]>> : i \in DOMAIN b.container}
    \cup {<<dir \o <<"content.opf">>, IF b.opf[i] = "package" THEN BookOpf(b) ELSE Garbage>> :
            i \in DOMAIN b.opf}
    \cup {<<dir \o <<"nav.xhtml">>, b.nav.entry[i]>> : i \in DOMAIN b.nav.entry}
    \cup {<<dir \o <<"toc.ncx">>, b.ncx.entry[i]>> : i \in DOMAIN b.ncx.entry}
    \cup {<<dir \o <<"toc.html">>, b.tocPage[i]>> : i \in DOMAIN b.tocPage}
    \cup {<<dir \o <<c>>, ChapterFile>> : c \in b.chapters}
    \cup (IF b.partFiles
          THEN {<<chapterFiles(2), Html(<< >>, << >>, PartMarkup)>>,
                <<chapterFiles(4), Html(<< >>, << >>, LaterPartMarkup)>>}
          ELSE {})
    \cup (IF b.cover \in {"present", "undecodable"}
          THEN {<<dir \o <<"images", "cover.jpg">>, Image(b.cover = "present")>>}
          ELSE {})
    \cup b.extraEntries

\* the file named *.ext that holds the book as an archive
BookFile(ext, size, readable, b) ==
    [ext |-> ext,
     disk |-> [kind |-> "file", size |-> size, readable |-> readable,
               zip |-> [kind |-> "zip", entries |-> ZipOf(BookEntries(b))]]]

PresentSpine(itemref) == [kind |-> "present", itemref |-> itemref]

\* a conforming book: everything declared and present
GoodBook ==
    [opfAt |-> "OEBPS", mimetype |-> <<TextEntry(EpubMimetype)>>,
     container |-> <<ContainerXml(<<"OEBPS", "content.opf">>)>>, opf |-> <<"package">>,
     hasPackage |-> TRUE, metadata |-> FullMetadata, manifest |-> "items",
     spine |-> PresentSpine(<<"c1", "c2">>),
     nav |-> [declared |-> FALSE, entry |-> << >>],
     ncx |-> [declared |-> TRUE,
              entry |-> <<Ncx(TRUE, <<NavPoint(TRUE, <<"di", "1", "zhang">>, <<"c1.html">>)>>)>>],
     tocPage |-> << >>, chapters |-> {"c1.html", "c2.html"}, partFiles |-> FALSE,
     cover |-> "present", extraItems |-> << >>, extraEntries |-> {}]

ContainerFor(opfAt) ==
    ContainerXml(IF opfAt = "root" THEN <<"content.opf">> ELSE <<"OEBPS", "content.opf">>)

(***************************************************************************)
(* Input families                                                          *)
(***************************************************************************)
Extensions == {<<".epub">>, <<".EPUB">>, <<".pdf">>}
FileSizes == {1, MaxFileSize, MaxFileSize + 1}
NotZip == [kind |-> "notzip"]

MimetypeOptions ==
    {<< >>, <<Corrupt>>}
    \cup {<<TextEntry(t)>> : t \in {EpubMimetype, EpubMimetype \o <<"\n">>,
                                    <<" ">> \o EpubMimetype, <<"text/plain">>, << >>}}

ContainerOptions ==
    {<< >>, <<Garbage>>, <<Corrupt>>, <<ContainerXml(<< >>)>>, <<Nav(<< >>)>>,
     <<ContainerFor("OEBPS")>>, <<ContainerFor("root")>>}

\* files that differ in what validate() looks at
EnvelopeFiles ==
    {[ext |-> e, disk |-> Absent] : e \in Extensions}
    \cup {[ext |-> e, disk |-> [kind |-> "file", size |-> 0, readable |-> TRUE, zip |-> NotZip]] :
            e \in Extensions}
    \cup {[ext |-> e, disk |-> [kind |-> "file", size |-> n, readable |-> r, zip |-> NotZip]] :
            e \in Extensions, n \in FileSizes, r \in BOOLEAN}
    \cup {BookFile(e, n, r, [GoodBook EXCEPT !.mimetype = m, !.container = c, !.opf = o]) :
            e \in Extensions, n \in FileSizes, r \in BOOLEAN,
            m \in MimetypeOptions, c \in ContainerOptions, o \in {<< >>, <<"package">>}}

\* a valid *.epub file holding the book
ValidFile(b) == BookFile(<<".epub">>, 1, TRUE, b)

PlacedBook(b, opfAt) == [b EXCEPT !.opfAt = opfAt, !.container = <<ContainerFor(opfAt)>>]

ChapterLabel == NavPoint(TRUE, <<"di", "1", "zhang">>, <<"c1.html">>)
SectionLabel == NavPoint(TRUE, <<"di", "1", "jie">>, <<"c2.html", "#", "s1">>)
BrokenLabel == NavPoint(FALSE, << >>, <<"c1.html">>)

NoDocument == [declared |-> FALSE, entry |-> << >>]
Declared(entry) == [declared |-> TRUE, entry |-> entry]

PlainLi == [direct |-> TRUE, href |-> <<"c1.html">>, text |-> <<"Chapter", " ", "1">>]
NestedLi == [direct |-> FALSE, href |-> <<"c2.html">>, text |-> <<"Chapter", " ", "2">>]
BlankLi == [direct |-> TRUE, href |-> <<"c2.html">>, text |-> <<" ">>]

TocPage == Html(<<"mulu">>,
                <<[inDiv |-> TRUE, href |-> <<"c1.html">>, text |-> <<" ", "di", "1", "zhang">>],
                  [inDiv |-> FALSE, href |-> <<"c2.html">>, text |-> <<"di", "2", "zhang">>],
                  [inDiv |-> TRUE, href |-> <<"c2.html">>, text |-> <<"qianyan">>]>>, << >>)
PlainPage == Html(<< >>, <<[inDiv |-> TRUE, href |-> <<"c1.html">>, text |-> <<"qianyan">>]>>,
                  << >>)

SampleTocs ==
    { [nav |-> NoDocument, ncx |-> GoodBook.ncx, tocPage |-> << >>],
      [nav |-> Declared(<<Nav(<<PlainLi>>)>>), ncx |-> GoodBook.ncx, tocPage |-> << >>],
      [nav |-> Declared(<<Corrupt>>), ncx |-> Declared(<<Garbage>>), tocPage |-> <<TocPage>>],
      [nav |-> NoDocument, ncx |-> NoDocument, tocPage |-> << >>] }

\* valid files that differ in the package document and in what it declares
PackageFiles ==
    {ValidFile(PlacedBook([GoodBook EXCEPT !.opf = o], at)) :
        o \in {<< >>, <<"garbage">>}, at \in {"root", "OEBPS"}}
    \cup {ValidFile(PlacedBook([GoodBook EXCEPT !.hasPackage = FALSE], at)) :
            at \in {"root", "OEBPS"}}
    \cup {ValidFile(PlacedBook([GoodBook EXCEPT !.metadata = md, !.manifest = mf, !.spine = sp,
                                               !.nav = t.nav, !.ncx = t.ncx,
                                               !.tocPage = t.tocPage, !.cover = cv], at)) :
            md \in {Absent, FullMetadata, BareMetadata, EmptyTextMetadata},
            mf \in {"absent", "empty", "items"},
            sp \in {Absent, PresentSpine(<< >>), PresentSpine(<<"c1", "c2">>)},
            t \in SampleTocs,
            cv \in {"none", "missing", "undecodable", "present"},
            at \in {"root", "OEBPS"}}

Configs == {[extractCover |-> c, extractToc |-> t] : c, t \in BOOLEAN}
DefaultConfig == [extractCover |-> TRUE, extractToc |-> TRUE]

\* valid files that differ in the sources of the table of contents
NavListings == SeqsUpTo({PlainLi, NestedLi, BlankLi}, MaxNavLis)
NavOptions ==
    {NoDocument, Declared(<< >>), Declared(<<Corrupt>>)}
    \cup {Declared(<<Nav(l)>>) : l \in NavListings}
NcxEntries ==
    {<< >>, <<Garbage>>, <<Corrupt>>, <<Ncx(FALSE, << >>)>>, <<Ncx(TRUE, << >>)>>,
     <<Ncx(TRUE, <<ChapterLabel, [SectionLabel EXCEPT !.navPoint = <<ChapterLabel>>]>>)>>,
     <<Ncx(TRUE, <<ChapterLabel, BrokenLabel>>)>>}
NcxOptions == {[declared |-> d, entry |-> e] : d \in BOOLEAN, e \in NcxEntries}
TocPageOptions == {<< >>, <<TocPage>>, <<PlainPage>>, <<Corrupt>>}
SpineItemrefs == SeqsUpTo({"", "c1", "ghost"}, MaxSpine)
SpineOptions == {Absent} \cup {PresentSpine(r) : r \in SpineItemrefs}
FewSpines == {Absent, PresentSpine(<< >>), PresentSpine(<<"ghost", "c2">>)}

TocFiles ==
    {ValidFile(PlacedBook([GoodBook EXCEPT !.nav = nv, !.ncx = nx, !.tocPage = tp,
                                               !.spine = sp], at)) :
        nv \in NavOptions, nx \in NcxOptions, tp \in TocPageOptions, sp \in FewSpines,
        at \in {"root", "OEBPS"}}
    \cup {ValidFile(PlacedBook([GoodBook EXCEPT !.ncx = Declared(<<Ncx(TRUE, f)>>)], at)) :
            f \in Forests({ChapterLabel, SectionLabel, BrokenLabel}), at \in {"root", "OEBPS"}}
    \cup {ValidFile([GoodBook EXCEPT !.ncx = NoDocument, !.spine = sp, !.manifest = mf]) :
            sp \in SpineOptions, mf \in {"absent", "empty", "items"}}

\* files that differ in what the chapter splitter reads
SplitLabels ==
    { NavPoint(TRUE, <<"di", "1", "zhang">>, <<"c1.html", "#", "s1">>),
      NavPoint(TRUE, <<"di", "2", "zhang">>, <<"gone.html">>),
      NavPoint(TRUE, <<"di", "yi", "bufen">>, <<"c1.html">>),
      NavPoint(TRUE, <<"di", "er", "bufen">>, <<"gone.html">>),
      NavPoint(TRUE, <<"Part", " ", "I">>, <<"c2.html">>),
      NavPoint(TRUE, <<"qianyan">>, << >>) }

SplitFiles ==
    {ValidFile(PlacedBook([GoodBook EXCEPT !.ncx = Declared(<<Ncx(TRUE, f)>>),
                                               !.partFiles = pf], at)) :
        f \in Forests(SplitLabels), pf \in BOOLEAN, at \in {"root", "OEBPS"}}
    \cup {ValidFile([GoodBook EXCEPT !.ncx = NoDocument, !.spine = sp]) :
            sp \in {Absent, PresentSpine(<<"c1", "c2">>)}}
    \cup {[ext |-> <<".epub">>, disk |-> Absent],
          [ext |-> <<".epub">>,
           disk |-> [kind |-> "file", size |-> 1, readable |-> TRUE, zip |-> NotZip]],
          ValidFile([GoodBook EXCEPT !.container = << >>]),
          ValidFile([GoodBook EXCEPT !.container = <<ContainerXml(<< >>)>>])}

\* files that differ in how the package document declares a cover and in where the
\* archive keeps the image
MetadataCoverItem == Item("img-a", <<"images", "a.jpg">>, "image/jpeg", "")
MetaTagItem == Item("img-b", <<"images", "b.jpg">>, "image/jpeg", "")
CoverImageItem == Item("c-img", <<"images", "c1.jpg">>, "image/jpeg", "cover-image")
CoverNamedItem == Item("cover-img", <<"images", "d.jpg">>, "image/png", "")
CoverPage == Item("cover", <<"cover.xhtml">>, XhtmlType, "")

\* an image entry; its data names the path it is stored at
ImageAt(p, state) ==
    [kind |-> "image", empty |-> state = "empty", decodable |-> state = "good", data |-> p]

ImageEntry(p, state) == <<p, IF state = "corrupt" THEN Corrupt ELSE ImageAt(p, state)>>

\* the subsequences of a sequence, order kept
RECURSIVE SubSeqsOf(_)
SubSeqsOf(s) ==
    IF s = << >> THEN {<< >>}
    ELSE LET rest == SubSeqsOf(Tail(s)) IN rest \cup {<<Head(s)>> \o r : r \in rest}

CoverItemLists ==
    SubSeqsOf(<<CoverPage, MetadataCoverItem, MetaTagItem, CoverNamedItem, CoverImageItem>>)

CoverKeys == {<< >>, <<"img-a">>}
CoverMetaTags ==
    {<< >>, <<[name |-> "cover", content |-> "ghost"], [name |-> "cover", content |-> "img-b"]>>}

DirOf(opfAt) == IF opfAt = "root" THEN << >> ELSE <<"OEBPS">>

\* books whose image files all sit in the package directory and decode
DeclaredCoverBooks ==
    {PlacedBook([GoodBook EXCEPT
                   !.cover = "none",
                   !.metadata = [FullMetadata EXCEPT !.cover = ck, !.meta = mt],
                   !.extraItems = items,
                   !.extraEntries =
                       {ImageEntry(DirOf(at) \o items[i].href, "good") :
                            i \in {j \in DOMAIN items : isImageType(items[j].mediaType)}}
                       \cup (IF named THEN {ImageEntry(DirOf(at) \o <<"cover.jpg">>, "good")}
                              ELSE {})], at) :
        ck \in CoverKeys, mt \in CoverMetaTags, items \in CoverItemLists,
        named \in BOOLEAN, at \in {"root", "OEBPS"}}

\* the places an archive may keep the image of href images/c1.jpg
CoverPlaces(at) ==
    {<<"images", "c1.jpg">>, DirOf(at) \o <<"images", "c1.jpg">>,
     <<".", "images", "c1.jpg">>, <<"OEBPS", "c1.jpg">>, <<"content", "images", "c1.jpg">>,
     <<"img", "c1.jpg">>}

ImageStates == {"good", "undecodable", "corrupt", "empty"}

\* books that declare images/c1.jpg or ./images/c1.jpg as the cover and keep it at
\* some of the places
PlacedCoverBooksAt(at) ==
    {PlacedBook([GoodBook EXCEPT
                   !.cover = "none",
                   !.extraItems = <<[CoverImageItem EXCEPT !.href = href]>>,
                   !.extraEntries = {ImageEntry(p, st) : p \in places}], at) :
        places \in SUBSET CoverPlaces(at), st \in ImageStates,
        href \in {<<"images", "c1.jpg">>, <<".", "images", "c1.jpg">>}}

PlacedCoverBooks == PlacedCoverBooksAt("root") \cup PlacedCoverBooksAt("OEBPS")

\* books without a usable package document, manifest or metadata block
BrokenCoverBooks ==
    {PlacedBook([GoodBook EXCEPT !.metadata = md, !.manifest = mf, !.cover = cv], at) :
        md \in {Absent, FullMetadata, BareMetadata}, mf \in {"absent", "empty", "items"},
        cv \in {"none", "missing", "present"}, at \in {"root", "OEBPS"}}

\* files whose table of contents has at most two entries, for the chapter statistics
StatsFiles ==
    {ValidFile(PlacedBook([GoodBook EXCEPT !.ncx = Declared(<<Ncx(TRUE, f)>>),
                                               !.partFiles = pf], at)) :
        f \in ForestsOf(1, SplitLabels) \cup ForestsOf(2, SplitLabels),
        pf \in BOOLEAN, at \in {"root", "OEBPS"}}
    \cup {ValidFile([GoodBook EXCEPT !.ncx = NoDocument])}
    \cup {ValidFile(PlacedBook([GoodBook EXCEPT
                                  !.cover = "none",
                                  !.extraEntries =
                                      {ImageEntry(DirOf(at) \o <<"cover.jpg">>, "good")}], at)) :
            at \in {"root", "OEBPS"}}

\* files for the split request: one-entry tables of contents, an empty table of
\* contents, and a file that is no archive
RouteFiles ==
    {ValidFile(PlacedBook([GoodBook EXCEPT !.ncx = Declared(<<Ncx(TRUE, f)>>),
                                               !.partFiles = pf], at)) :
        f \in ForestsOf(1, SplitLabels) \cup ForestsOf(2, SplitLabels),
        pf \in BOOLEAN, at \in {"root", "OEBPS"}}
    \cup {ValidFile([GoodBook EXCEPT !.ncx = NoDocument, !.spine = sp]) :
            sp \in {Absent, PresentSpine(<<"c1", "c2">>)}}
    \cup {[ext |-> <<".epub">>,
           disk |-> [kind |-> "file", size |-> 1, readable |-> TRUE, zip |-> NotZip]]}

CoverFiles == {ValidFile(b) : b \in DeclaredCoverBooks \cup PlacedCoverBooks \cup BrokenCoverBooks}

CoverConfigs == {[extractCover |-> c, extractToc |-> TRUE] : c \in BOOLEAN}

\* dc:contributor elements: a plain role attribute, an opf:role attribute, both or
\* neither, with translator and other role codes
Contributors ==
    {[role |-> r, opfRole |-> o, text |-> t] :
        r \in {"", "translator", "edt"}, o \in {"", "trl", "aut"},
        t \in {<<"li si">>, <<"wang wu">>}}

\* valid files that differ in the contributors of the package metadata
InfoFiles ==
    {ValidFile([GoodBook EXCEPT !.metadata = [FullMetadata EXCEPT !.contributor = c]]) :
        c \in SeqsUpTo(Contributors, MaxContributors)}

\* the session of a book whose chapters have been split and not yet analysed
SplitSession ==
    [kind |-> "session", status |-> "split",
     chapterAnalysis |-> [defined |-> FALSE, items |-> << >>]]

\* the chapterIndexes of an analyze request: none, or a list that may hold the
\* invalid index MaxChapters
ChapterIndexes ==
    {[given |-> FALSE, list |-> << >>]}
    \cup {[given |-> TRUE, list |-> l] : l \in SeqsUpTo(0..MaxChapters, MaxIndexes)}

\* no analyze request has arrived; response 0 stands for no response sent
NoAnalyze ==
    [pc |-> "idle", session |-> NoSession, chapterIndexes |-> [given |-> FALSE, list |-> << >>],
     pending |-> NoSession, response |-> 0]

(***************************************************************************)
(* Actions                                                                 *)
(***************************************************************************)
\* no split request has arrived; response 0 stands for no response sent, and status is
\* the status of the session, 'parsed' being what the parse route has left
NoRequest ==
    [pc |-> "idle", level |-> 1, sessionAlive |-> TRUE, response |-> 0, status |-> "parsed"]

InitState(files, configs) ==
    /\ file \in files
    /\ config \in configs
    /\ validateOut = NotCalled
    /\ parseResults = << >>
    /\ uuidCount = 0
    /\ splitter = NewSplitter
    /\ initOut = NotCalled
    /\ splitOut = NotCalled
    /\ statsOut = NotCalled
    /\ route = NoRequest
    /\ sessions = SplitSession
    /\ sessionFile = SplitSession
    /\ analyze = [r \in 1..MaxRequests |-> NoAnalyze]
    /\ deletion = "idle"

\* a call of parser.validate(filePath)
Validate ==
    /\ validateOut' = Called(validate(file))
    /\ UNCHANGED <<storageVars, file, config, parseResults, uuidCount, splitterVars>>

\* a call of parser.parse(filePath)
Parse ==
    /\ Len(parseResults) < MaxParseCalls
    /\ \E r \in {parse(file, uuidCount, config)} :
         /\ parseResults' = Append(parseResults,
                                   IF r.threw THEN r ELSE Return(r.value.result))
         /\ uuidCount' = IF r.threw THEN uuidCount ELSE r.value.n
    /\ UNCHANGED <<storageVars, file, config, validateOut, splitterVars>>

\* a call of splitter.initialize(filePath)
Initialize ==
    /\ \E r \in {initialize(splitter, file)} :
         /\ splitter' = r.splitter
         /\ initOut' = Called(r.out)
    /\ UNCHANGED <<storageVars, file, config, parserVars, splitOut, statsOut, route>>

\* the tableOfContents of the latest parse result
LastToc == parseResults[Len(parseResults)].value.tableOfContents

\* a call of splitter.splitChapters(parseResult.tableOfContents, {level, maxChapterLength}),
\* maxChapterLength 0 standing for an option that is not set
SplitChapters ==
    /\ parseResults # << >>
    /\ ~parseResults[Len(parseResults)].threw
    /\ \E level \in 1..MaxLevel, maxChapterLength \in {0, MaxChapterLength} :
         splitOut' = [called |-> TRUE, initialized |-> splitter.zip.kind # "null",
                      toc |-> LastToc, level |-> level,
                      maxChapterLength |-> maxChapterLength,
                      out |-> splitChapters(splitter, LastToc,
                                            [level |-> level,
                                             maxChapterLength |-> maxChapterLength])]
    /\ UNCHANGED <<storageVars, file, config, parserVars, splitter, initOut, statsOut, route>>

\* a call of splitter.dispose() or splitter.cleanup()
Dispose ==
    /\ splitter' = dispose(splitter)
    /\ UNCHANGED <<storageVars, file, config, parserVars, initOut, splitOut, statsOut, route>>

\* a call of splitter.getChapterStats(chapters) on the list splitChapters returned
GetChapterStats ==
    /\ splitOut.called
    /\ ~splitOut.out.threw
    /\ statsOut' = [called |-> TRUE, chapters |-> splitOut.out.value,
                    out |-> getChapterStats(splitOut.out.value)]
    /\ UNCHANGED <<storageVars, file, config, parserVars, splitter, initOut, splitOut, route>>

(***************************************************************************)
(* router.post('/:fileId/split'): one request, step by step.  The session  *)
(* holds the latest parse() result; the storage cleanup timer may delete   *)
(* the session and its file between two awaited calls of the handler.      *)
(***************************************************************************)
\* the request arrives: 404 without a session or without a parse result
RouteStart ==
    /\ route.pc = "idle"
    /\ \E level \in 1..MaxLevel :
         route' = IF ~route.sessionAlive \/ parseResults = << >>
                  THEN [route EXCEPT !.pc = "done", !.response = 404]
                  ELSE [route EXCEPT !.pc = "announce", !.level = level]
    /\ UNCHANGED <<storageVars, file, config, parserVars, splitter, initOut, splitOut, statsOut>>

\* updateSession(status 'splitting') and addLog: updateSession throws without a session
RouteAnnounce ==
    /\ route.pc = "announce"
    /\ route' = IF route.sessionAlive
                 THEN [route EXCEPT !.pc = "checkToc", !.status = "splitting"]
                 ELSE [route EXCEPT !.pc = "catch"]
    /\ UNCHANGED <<storageVars, file, config, parserVars, splitter, initOut, splitOut, statsOut>>

\* 400 when the parse result has no table of contents
RouteCheckToc ==
    /\ route.pc = "checkToc"
    /\ route' = IF LastToc = << >>
                 THEN [route EXCEPT !.pc = "done", !.response = 400]
                 ELSE [route EXCEPT !.pc = "initialize"]
    /\ UNCHANGED <<storageVars, file, config, parserVars, splitter, initOut, splitOut, statsOut>>

\* const splitter = new ChapterSplitter(); await splitter.initialize(session.filepath)
RouteInitialize ==
    /\ route.pc = "initialize"
    /\ \E r \in {initialize(NewSplitter, file)} :
         /\ splitter' = r.splitter
         /\ initOut' = Called(r.out)
         /\ route' = [route EXCEPT !.pc = IF r.out.threw THEN "catch" ELSE "split"]
    /\ UNCHANGED <<storageVars, file, config, parserVars, splitOut, statsOut>>

\* splitChapters(session.parseResult.tableOfContents, {level}) and getChapterStats
RouteSplit ==
    /\ route.pc = "split"
    /\ \E r \in {splitChapters(splitter, LastToc,
                                [level |-> route.level, maxChapterLength |-> 0])} :
         /\ splitOut' = [called |-> TRUE, initialized |-> splitter.zip.kind # "null",
                          toc |-> LastToc, level |-> route.level, maxChapterLength |-> 0,
                          out |-> r]
         /\ statsOut' = IF r.threw THEN statsOut
                         ELSE [called |-> TRUE, chapters |-> r.value,
                               out |-> getChapterStats(r.value)]
         /\ route' = [route EXCEPT !.pc = IF r.threw THEN "catch" ELSE "save"]
    /\ UNCHANGED <<storageVars, file, config, parserVars, splitter, initOut>>

\* updateSession(status 'split', parseResult) and addLog
RouteSave ==
    /\ route.pc = "save"
    /\ route' = IF route.sessionAlive
                 THEN [route EXCEPT !.pc = "cleanup", !.status = "split"]
                 ELSE [route EXCEPT !.pc = "catch"]
    /\ UNCHANGED <<storageVars, file, config, parserVars, splitter, initOut, splitOut, statsOut>>

\* await splitter.cleanup()
RouteCleanup ==
    /\ route.pc = "cleanup"
    /\ splitter' = dispose(splitter)
    /\ route' = [route EXCEPT !.pc = "respond"]
    /\ UNCHANGED <<storageVars, file, config, parserVars, initOut, splitOut, statsOut>>

\* res.json({success: true, ...})
RouteRespond ==
    /\ route.pc = "respond"
    /\ route' = [route EXCEPT !.pc = "done", !.response = 200]
    /\ UNCHANGED <<storageVars, file, config, parserVars, splitter, initOut, splitOut, statsOut>>

\* the catch block: updateSession(status 'error'), addLog, res.status(500); without a
\* session updateSession throws again and the request ends without a response
RouteCatch ==
    /\ route.pc = "catch"
    /\ route' = IF route.sessionAlive
                 THEN [route EXCEPT !.pc = "done", !.response = 500, !.status = "error"]
                 ELSE [route EXCEPT !.pc = "done"]
    /\ UNCHANGED <<storageVars, file, config, parserVars, splitter, initOut, splitOut, statsOut>>

\* FileManager.deleteSession, from the cleanup timer or the delete route: the file is
\* unlinked and the session is removed
SessionDeleted ==
    /\ route.pc # "done"
    /\ route.sessionAlive
    /\ route' = [route EXCEPT !.sessionAlive = FALSE]
    /\ file' = [ext |-> file.ext, disk |-> Absent]
    /\ UNCHANGED <<storageVars, config, parserVars, splitter, initOut, splitOut, statsOut>>

\* the steps of the request handler
RouteStep ==
    \/ RouteStart
    \/ RouteAnnounce
    \/ RouteCheckToc
    \/ RouteInitialize
    \/ RouteSplit
    \/ RouteSave
    \/ RouteCleanup
    \/ RouteRespond
    \/ RouteCatch

(***************************************************************************)
(* router.post('/:fileId/analyze') and FileManager.deleteSession, step by  *)
(* step: a step runs from one await that yields to the next.  The write of *)
(* the session file is the await of updateSession; its completion is       *)
(* followed by saveSession's this.sessions.set.                            *)
(***************************************************************************)
\* the request arrives: 404 without a session, else updateSession(status 'analyzing')
\* up to the write of the session file
AnalyzeStart(r) ==
    /\ analyze[r].pc = "idle"
    /\ \E chapterIndexes \in ChapterIndexes, u \in {updateSession(sessions, [status |-> "analyzing"])} :
         IF u.threw
         THEN /\ analyze' = [analyze EXCEPT ![r].pc = "done", ![r].response = 404]
              /\ UNCHANGED sessions
         ELSE /\ analyze' = [analyze EXCEPT ![r].pc = "announce", ![r].session = sessions,
                                             ![r].chapterIndexes = chapterIndexes,
                                             ![r].pending = u.value]
              /\ sessions' = u.value
    /\ UNCHANGED <<sessionFile, deletion, file, config, parserVars, splitterVars>>

\* the write of the 'analyzing' session ends; the provider is called
AnalyzeAnnounced(r) ==
    /\ analyze[r].pc = "announce"
    /\ sessionFile' = analyze[r].pending
    /\ sessions' = analyze[r].pending
    /\ analyze' = [analyze EXCEPT ![r].pc = "provider"]
    /\ UNCHANGED <<deletion, file, config, parserVars, splitterVars>>

\* the catch block up to the write of the session file: updateSession(status 'error')
\* throws without a session, and the request then ends without a response
AnalyzeCatch(r) ==
    \E u \in {updateSession(sessions, [status |-> "error", error |-> <<"error.message">>])} :
        IF u.threw
        THEN /\ analyze' = [analyze EXCEPT ![r].pc = "done"]
             /\ UNCHANGED sessions
        ELSE /\ analyze' = [analyze EXCEPT ![r].pc = "failing", ![r].pending = u.value]
             /\ sessions' = u.value

\* the provider has answered: the results are mapped back onto the analysis of the
\* session the handler holds, and updateSession(status 'completed', parseResult) runs up
\* to the write of the session file
AnalyzeResults(r) ==
    \E u \in {updateSession(sessions,
                  [status |-> "completed",
                   chapterAnalysis |->
                     [defined |-> TRUE,
                      items |-> finalAnalysisResults(
                                  analyze[r].session, analyze[r].chapterIndexes,
                                  analysisResultsOf(r, targetChapters(analyze[r].chapterIndexes,
                                                                      MaxChapters)),
                                  MaxChapters)]])} :
        IF u.threw
        THEN AnalyzeCatch(r)
        ELSE /\ analyze' = [analyze EXCEPT ![r].pc = "save", ![r].pending = u.value]
             /\ sessions' = u.value

\* the provider answers or fails
AnalyzeProvider(r) ==
    /\ analyze[r].pc = "provider"
    /\ \E answered \in BOOLEAN : IF answered THEN AnalyzeResults(r) ELSE AnalyzeCatch(r)
    /\ UNCHANGED <<sessionFile, deletion, file, config, parserVars, splitterVars>>

\* the write of the 'completed' session ends; res.json({success: true, ...})
AnalyzeSaved(r) ==
    /\ analyze[r].pc = "save"
    /\ sessionFile' = analyze[r].pending
    /\ sessions' = analyze[r].pending
    /\ analyze' = [analyze EXCEPT ![r].pc = "done", ![r].response = 200]
    /\ UNCHANGED <<deletion, file, config, parserVars, splitterVars>>

\* the write of the 'error' session ends; res.status(500)
AnalyzeFailed(r) ==
    /\ analyze[r].pc = "failing"
    /\ sessionFile' = analyze[r].pending
    /\ sessions' = analyze[r].pending
    /\ analyze' = [analyze EXCEPT ![r].pc = "done", ![r].response = 500]
    /\ UNCHANGED <<deletion, file, config, parserVars, splitterVars>>

\* deleteSession: nothing to do without a session, else unlink(session.filepath) starts
DeleteStart ==
    /\ deletion = "idle"
    /\ deletion' = IF sessions.kind # "session" THEN "done"
                   ELSE IF file.disk.kind # "absent" THEN "unlinkFile"
                   ELSE IF sessionFile.kind = "session" THEN "unlinkSession"
                   ELSE "done"
    /\ sessions' = IF sessions.kind = "session" /\ file.disk.kind = "absent"
                      /\ sessionFile.kind # "session"
                   THEN NoSession ELSE sessions
    /\ UNCHANGED <<sessionFile, analyze, file, config, parserVars, splitterVars>>

\* the uploaded file is unlinked; unlink(sessionPath) starts if the session file exists
DeleteUnlinkFile ==
    /\ deletion = "unlinkFile"
    /\ file' = [ext |-> file.ext, disk |-> Absent]
    /\ deletion' = IF sessionFile.kind = "session" THEN "unlinkSession" ELSE "done"
    /\ sessions' = IF sessionFile.kind = "session" THEN sessions ELSE NoSession
    /\ UNCHANGED <<sessionFile, analyze, config, parserVars, splitterVars>>

\* the session file is unlinked; this.sessions.delete(fileId)
DeleteUnlinkSession ==
    /\ deletion = "unlinkSession"
    /\ sessionFile' = NoSession
    /\ sessions' = NoSession
    /\ deletion' = "done"
    /\ UNCHANGED <<analyze, file, config, parserVars, splitterVars>>

Init == InitState(EnvelopeFiles \cup PackageFiles, Configs)
Next == Validate \/ Parse
Spec == Init /\ [][Next]_vars

InitToc == InitState(TocFiles, {DefaultConfig})
NextToc == Validate \/ (parseResults = << >> /\ Parse)
SpecToc == InitToc /\ [][NextToc]_vars

InitSplit == InitState(SplitFiles, {DefaultConfig})
NextSplit == (parseResults = << >> /\ Parse) \/ Initialize \/ SplitChapters \/ Dispose
SpecSplit == InitSplit /\ [][NextSplit]_vars

InitStats == InitState(StatsFiles, {DefaultConfig})
NextStats ==
    \/ parseResults = << >> /\ Parse
    \/ Initialize
    \/ SplitChapters
    \/ GetChapterStats
    \/ Dispose
SpecStats == InitStats /\ [][NextStats]_vars

InitRoute == InitState(RouteFiles, {DefaultConfig})
NextRoute ==
    \/ parseResults = << >> /\ route.pc = "idle" /\ route.sessionAlive /\ Parse
    \/ RouteStep
    \/ SessionDeleted
SpecRoute == InitRoute /\ [][NextRoute]_vars
\* the handler leaves its split step: splitChapters has returned or thrown
RouteSplitEnds ==
    /\ route.pc = "split"
    /\ \E pc \in {"save", "catch"} : route' = [route EXCEPT !.pc = pc]

\* the steps of the request handler other than the split step
RouteStepBesideSplit ==
    \/ RouteStart
    \/ RouteAnnounce
    \/ RouteCheckToc
    \/ RouteInitialize
    \/ RouteSave
    \/ RouteCleanup
    \/ RouteRespond
    \/ RouteCatch

\* the handler is an async function the event loop keeps running to its end; nothing
\* obliges the session to be deleted.  A step of the handler that changes route.pc
\* from "split" is a RouteSplit step, so the second condition is weak fairness of
\* RouteSplit, stated on the position alone.
SpecRouteFair ==
    SpecRoute /\ WF_vars(RouteStepBesideSplit) /\ WF_route(RouteSplitEnds)

InitAnalyze == InitState({ValidFile(GoodBook)}, {DefaultConfig})
NextAnalyze ==
    \/ \E r \in 1..MaxRequests :
          \/ AnalyzeStart(r)
          \/ AnalyzeAnnounced(r)
          \/ AnalyzeProvider(r)
          \/ AnalyzeSaved(r)
          \/ AnalyzeFailed(r)
    \/ DeleteStart
    \/ DeleteUnlinkFile
    \/ DeleteUnlinkSession
SpecAnalyze == InitAnalyze /\ [][NextAnalyze]_vars

InitInfo == InitState(InfoFiles, {DefaultConfig})
NextInfo == Validate \/ (parseResults = << >> /\ Parse)
SpecInfo == InitInfo /\ [][NextInfo]_vars

InitCover == InitState(CoverFiles, CoverConfigs)
NextCover == Validate \/ (parseResults = << >> /\ Parse)
SpecCover == InitCover /\ [][NextCover]_vars

(***************************************************************************)
(* Properties of parse() and validate()                                    *)
(***************************************************************************)
\* the shape createError gives a failure: no success, an error text, every bookInfo
\* field the empty string, no table of contents and no coverInfo key
IsErrorResult(result) ==
    /\ result.success = FALSE
    /\ result.error # << >>
    /\ \A k \in DOMAIN result.bookInfo : result.bookInfo[k] = << >>
    /\ result.tableOfContents = << >>
    /\ "coverInfo" \notin DOMAIN result

\* validation fails, or the container descriptor or the package document cannot be
\* read or parsed
EnvelopeFails(f) == ~validate(f).value \/ readPackage(f.disk.zip.entries).threw

\* C1: every call of parse() returns a result object and never throws; when pre-flight
\* validation fails, or the container descriptor or the package document cannot be read
\* or parsed, the result has success=false, a non-empty error, every bookInfo field
\* empty, an empty tableOfContents and no coverInfo.
C1_ParseNeverThrows ==
    \A i \in DOMAIN parseResults :
        /\ ~parseResults[i].threw
        /\ EnvelopeFails(file) => IsErrorResult(parseResults[i].value)

\* C1 witness: parse() has run on a file that passes validation but whose package
\* document cannot be read, and has answered with a failure result.
C1_Witness ==
    /\ parseResults # << >>
    /\ validate(file).value
    /\ readPackage(file.disk.zip.entries).threw
    /\ ~parseResults[1].threw
    /\ parseResults[1].value.success = FALSE

\* the parsed package document of a file that passes validation
PackageOf(f) == readPackage(f.disk.zip.entries).value

\* validation has passed and the package document has been parsed
PackageParsed(f) ==
    /\ ~EnvelopeFails(f)
    /\ PackageOf(f).opfData.hasPackage

\* C2: inside parse(), metadata extraction, cover resolution and TOC resolution are
\* isolated: once validation has passed and the package document has been parsed, a
\* failure of one of the three neither turns the result into success=false nor changes
\* what the other two give.
C2_FeaturesIsolated ==
    (parseResults # << >> /\ PackageParsed(file)) =>
        /\ parseResults[1].value.success
        /\ parseResults[1].value.coverInfo
             = extractCoverInfo(file.disk.zip.entries, PackageOf(file).opfData,
                                PackageOf(file).opfDir, config).value
        /\ parseResults[1].value.tableOfContents
             = extractTableOfContents(file.disk.zip.entries, PackageOf(file).opfData,
                                      PackageOf(file).opfDir, 0, config).value.items

\* C2 failing input: parse() has run on a valid archive whose package document has a
\* manifest and a spine but no metadata block.
C2_Reached ==
    /\ parseResults # << >>
    /\ PackageParsed(file)
    /\ metadataOf(PackageOf(file).opfData).threw
    /\ ~manifestOf(PackageOf(file).opfData).threw
    /\ parseResults[1].value.success = FALSE

(***************************************************************************)
(* Properties of the table of contents                                     *)
(***************************************************************************)
\* the table of contents of the first parse() result
FirstToc == parseResults[1].value.tableOfContents

\* what a tier's try block yields, an exception counted as no entries
TierItems(r) == IF r.threw THEN << >> ELSE r.value.items

\* the entries of the navigation document, the legacy navigation map and the HTML scan,
\* each taken on its own with identifiers starting at 0
TiersOf(f) ==
    LET zip == f.disk.zip.entries
        p == PackageOf(f)
        manifest == manifestOf(p.opfData)
    IN IF manifest.threw THEN << << >>, << >>, << >> >>
       ELSE << TierItems(extractTocFromNavFileTry(zip, manifest.value, p.opfDir, 0)),
               TierItems(extractTocFromNcxFileTry(zip, manifest.value, p.opfDir, 0)),
               TierItems(extractTocFromHtmlFilesTry(zip, manifest.value, p.opfDir, 0)) >>

SpineTier(f) == TierItems(extractTocFromSpineTry(PackageOf(f).opfData, 0))

RECURSIVE FirstNonEmpty(_, _)
FirstNonEmpty(tiers, last) ==
    IF tiers = << >> THEN last
    ELSE IF Head(tiers) # << >> THEN Head(tiers)
    ELSE FirstNonEmpty(Tail(tiers), last)

\* the <title, href> pairs of a list of TocItems
Labels(toc) == [i \in DOMAIN toc |-> <<toc[i].title, toc[i].href>>]

\* the entries a navigation document lists: its anchors with a label and a target
IsLabelled(li) == trim(li.text) # << >> /\ li.href # << >>
NavEntries(navContent) ==
    LET labelled == SelectSeq(navContent.lis, IsLabelled)
    IN [i \in DOMAIN labelled |-> <<trim(labelled[i].text), labelled[i].href>>]

NavPathOf(f) == withOpfDir(PackageOf(f).opfDir, <<"nav.xhtml">>)
NcxPathOf(f) == withOpfDir(PackageOf(f).opfDir, <<"toc.ncx">>)

\* the archive has an EPUB3 navigation document: declared with properties="nav",
\* present, well-formed and listing at least one entry
HasNavigationDocument(f) ==
    /\ ~manifestOf(PackageOf(f).opfData).threw
    /\ \E i \in DOMAIN manifestOf(PackageOf(f).opfData).value.items :
          manifestOf(PackageOf(f).opfData).value.items[i].properties = "nav"
    /\ NavPathOf(f) \in DOMAIN f.disk.zip.entries
    /\ f.disk.zip.entries[NavPathOf(f)].kind = "nav"
    /\ NavEntries(f.disk.zip.entries[NavPathOf(f)]) # << >>

\* the archive has an NCX with a navigation map that has navPoints
HasNcx(f) ==
    /\ NcxPathOf(f) \in DOMAIN f.disk.zip.entries
    /\ f.disk.zip.entries[NcxPathOf(f)].kind = "ncx"
    /\ f.disk.zip.entries[NcxPathOf(f)].hasNavMap
    /\ f.disk.zip.entries[NcxPathOf(f)].navPoint # << >>

\* C3: extractTableOfContents evaluates its tiers in the order navigation document,
\* NCX, HTML scan, spine and returns the list of the first tier with a non-empty
\* result; for every archive that has a navigation document together with an NCX the
\* returned entries are those of the navigation document, not of the NCX.
C3_NavPreferred ==
    (parseResults # << >> /\ PackageParsed(file)) =>
        /\ FirstToc = FirstNonEmpty(TiersOf(file), SpineTier(file))
        /\ (HasNavigationDocument(file) /\ HasNcx(file)) =>
              Labels(FirstToc) = NavEntries(file.disk.zip.entries[NavPathOf(file)])

\* C3 failing input: parse() has run on an archive with a navigation document that
\* lists an entry and with an NCX, and has returned the entries of the NCX.
C3_Reached ==
    /\ parseResults # << >>
    /\ PackageParsed(file)
    /\ HasNavigationDocument(file)
    /\ HasNcx(file)
    /\ TiersOf(file)[1] = << >>
    /\ TiersOf(file)[2] # << >>
    /\ FirstToc = TiersOf(file)[2]

\* the table of contents of the first parse() result is that of the NCX tier
TocFromNcx ==
    /\ parseResults # << >>
    /\ PackageParsed(file)
    /\ HasNcx(file)
    /\ TiersOf(file)[1] = << >>
    /\ TiersOf(file)[2] # << >>

\* the navPoints of a forest in document order, each with its nesting depth and the
\* position in that order of the navPoint enclosing it (0 for a top-level navPoint);
\* before is the number of navPoints that precede the forest
RECURSIVE Outline(_, _, _, _)
Outline(navPoints, depth, parentPos, before) ==
    IF navPoints = << >> THEN << >>
    ELSE LET inner == Outline(Head(navPoints).navPoint, depth + 1, before + 1, before + 1)
         IN <<[title |-> Head(navPoints).title, src |-> Head(navPoints).src,
               depth |-> depth, parentPos |-> parentPos]>>
            \o inner
            \o Outline(Tail(navPoints), depth, parentPos, before + 1 + Len(inner))

NcxOutline(f) == Outline(f.disk.zip.entries[NcxPathOf(f)].navPoint, 1, 0, 0)

\* the number of parent_id links from the entry with this id up to a top-level entry
RECURSIVE ChainLength(_, _, _)
ChainLength(toc, id, fuel) ==
    IF id = NullId \/ fuel = 0 THEN 0
    ELSE IF \A j \in DOMAIN toc : toc[j].id # id THEN fuel
    ELSE 1 + ChainLength(toc, toc[CHOOSE j \in DOMAIN toc : toc[j].id = id].parent_id,
                         fuel - 1)

\* C5: for a legacy navigation map with nested navPoints, each TocItem has parent_id
\* equal to the generated id of its immediately enclosing navPoint (null for top-level
\* navPoints) and level equal to the length of its parent_id chain plus one, so the
\* flat list grouped by parent_id has the nesting depth of the navigation map.
C5_NcxParentAndLevel ==
    TocFromNcx =>
        /\ Len(FirstToc) = Len(NcxOutline(file))
        /\ \A i \in DOMAIN FirstToc :
              /\ FirstToc[i].title = NcxOutline(file)[i].title
              /\ FirstToc[i].href = NcxOutline(file)[i].src
              /\ FirstToc[i].parent_id =
                    IF NcxOutline(file)[i].parentPos = 0 THEN NullId
                    ELSE FirstToc[NcxOutline(file)[i].parentPos].id
              /\ FirstToc[i].level = NcxOutline(file)[i].depth
              /\ FirstToc[i].level
                    = ChainLength(FirstToc, FirstToc[i].parent_id, Len(FirstToc)) + 1

\* C5 witness: parse() has returned the entries of a navigation map that nests three
\* deep: an entry of level 3 whose parent has level 2.
C5_Witness ==
    /\ TocFromNcx
    /\ \E i, j \in DOMAIN FirstToc :
          /\ FirstToc[i].level = 3
          /\ FirstToc[j].level = 2
          /\ FirstToc[i].parent_id = FirstToc[j].id

\* C6: the flat list parse() returns is in depth-first pre-order: every entry of level
\* L > 1 has as parent_id the id of the nearest preceding entry of level L-1, each
\* parent precedes all of its descendants, and ids are pairwise distinct.
C6_PreOrder ==
    (parseResults # << >> /\ PackageParsed(file)) =>
        /\ \A i, j \in DOMAIN FirstToc : i # j => FirstToc[i].id # FirstToc[j].id
        /\ \A i \in DOMAIN FirstToc : FirstToc[i].id # NullId
        /\ \A i \in DOMAIN FirstToc :
              IF FirstToc[i].level = 1 THEN FirstToc[i].parent_id = NullId
              ELSE \E j \in 1..(i - 1) :
                      /\ FirstToc[j].level = FirstToc[i].level - 1
                      /\ \A k \in (j + 1)..(i - 1) : FirstToc[k].level >= FirstToc[i].level
                      /\ FirstToc[i].parent_id = FirstToc[j].id

\* C6 witness: parse() has returned a list in which an entry of level 2 follows two
\* entries of level 1 and has the second of them as its parent.
C6_Witness ==
    /\ parseResults # << >>
    /\ PackageParsed(file)
    /\ \E i, j, k \in DOMAIN FirstToc :
          /\ i < j /\ j < k
          /\ FirstToc[i].level = 1
          /\ FirstToc[j].level = 1
          /\ FirstToc[k].level = 2
          /\ FirstToc[k].parent_id = FirstToc[j].id

\* extractTableOfContents on the package document of the file, identifiers from 0
TocOutcome(f) ==
    extractTableOfContents(f.disk.zip.entries, PackageOf(f).opfData, PackageOf(f).opfDir,
                           0, config)

\* C4: extractTableOfContents never throws: an exception raised while locating, reading
\* or parsing the navigation document, the NCX or a candidate HTML document counts as
\* an empty result of that tier only, the next tier is tried, and the chain ends with
\* the spine fallback, which returns a possibly empty list instead of failing.
C4_TocNeverThrows ==
    (parseResults # << >> /\ PackageParsed(file)) =>
        /\ ~TocOutcome(file).threw
        /\ FirstToc = TocOutcome(file).value.items
        /\ FirstToc = FirstNonEmpty(TiersOf(file), SpineTier(file))

\* C4 witness: parse() has run on an archive whose NCX raises an exception when read
\* or parsed, and the table of contents is the one the HTML scan found after it.
C4_Witness ==
    /\ parseResults # << >>
    /\ PackageParsed(file)
    /\ ~manifestOf(PackageOf(file).opfData).threw
    /\ extractTocFromNcxFileTry(file.disk.zip.entries,
                                manifestOf(PackageOf(file).opfData).value,
                                PackageOf(file).opfDir, 0).threw
    /\ TiersOf(file)[1] = << >>
    /\ TiersOf(file)[3] # << >>
    /\ FirstToc = TiersOf(file)[3]

(***************************************************************************)
(* Properties of splitChapters                                             *)
(***************************************************************************)
\* a splitChapters call has returned
SplitReturned == splitOut.called /\ ~splitOut.out.threw

\* the chapters a returned call gave
Chapters == splitOut.out.value

\* the entries of the call's table of contents at the requested level, in TOC order
EntriesAtLevel ==
    LET atLevel(entry) == entry.level = splitOut.level
    IN SelectSeq(splitOut.toc, atLevel)

\* the <title, level> pairs of chapters or of entries
Keys(items) == [i \in DOMAIN items |-> <<items[i].title, items[i].level>>]

\* a can be had from b by deleting elements
RECURSIVE IsSubsequence(_, _)
IsSubsequence(a, b) ==
    IF a = << >> THEN TRUE
    ELSE IF b = << >> THEN FALSE
    ELSE IF Head(a) = Head(b) THEN IsSubsequence(Tail(a), Tail(b))
    ELSE IsSubsequence(a, Tail(b))

\* C7: splitChapters(toc, {level}) returns chapters only for entries whose level is the
\* requested one, in the relative order of those entries in the TOC, and the chapter at
\* position i of the result has index i, counted from 0, whatever was dropped.
C7_LevelOrderIndex ==
    SplitReturned =>
        /\ \A i \in DOMAIN Chapters :
              /\ Chapters[i].level = splitOut.level
              /\ Chapters[i].index = i - 1
        /\ IsSubsequence(Keys(Chapters), Keys(EntriesAtLevel))

\* C7 witness: a call has returned at least two chapters, fewer than there are entries
\* at the requested level.
C7_Witness ==
    /\ SplitReturned
    /\ Len(Chapters) >= 2
    /\ Len(Chapters) < Len(EntriesAtLevel)

\* the document an entry links to can be read from the archive of the file
Extractable(entry) ==
    /\ entry.href # << >>
    /\ fullPathOf(PackageOf(file).opfDir, stripFragment(entry.href))
         \in DOMAIN file.disk.zip.entries
    /\ file.disk.zip.entries[fullPathOf(PackageOf(file).opfDir,
                                        stripFragment(entry.href))].kind # "corrupt"

\* C8: an entry at the target level whose linked document cannot be extracted produces
\* no chapter, and every other entry at that level is processed and emitted, for
\* ordinary entries and for entries of the part-aggregation path alike.
C8_FailedEntriesSkipped ==
    (SplitReturned /\ splitOut.toc # << >>) =>
        Keys(Chapters) = Keys(SelectSeq(EntriesAtLevel, Extractable))

\* C8 failing input: a call has returned a chapter for a part-title entry whose linked
\* document is not in the archive.
C8_Reached ==
    /\ SplitReturned
    /\ splitOut.toc # << >>
    /\ \E i \in DOMAIN EntriesAtLevel :
          /\ isPartTitle(EntriesAtLevel[i].title)
          /\ EntriesAtLevel[i].href # << >>
          /\ ~Extractable(EntriesAtLevel[i])
          /\ \E j \in DOMAIN Chapters :
                /\ Chapters[j].title = EntriesAtLevel[i].title
                /\ Chapters[j].content = << >>
                /\ Chapters[j].wordCount = 0

\* the part of C8 that holds: entries that are not part titles are skipped when their
\* document cannot be extracted, and the others are emitted
C8_OrdinaryEntriesSkipped ==
    (SplitReturned /\ splitOut.toc # << >>) =>
        LET kept(entry) == Extractable(entry)
                           \/ (isPartTitle(entry.title) /\ entry.href # << >>)
        IN Keys(Chapters) = Keys(SelectSeq(EntriesAtLevel, kept))

\* C9: splitChapters called with an empty TOC list fails with the missing-TOC error
\* instead of returning an empty list, whereas with a non-empty TOC in which no entry
\* has the requested level it returns an empty list without error.
C9_EmptyTocFails ==
    (splitOut.called /\ splitOut.initialized) =>
        /\ splitOut.toc = << >> => splitOut.out.threw
        /\ (splitOut.toc # << >> /\ EntriesAtLevel = << >>) => splitOut.out = Return(<< >>)

\* C9 failing input: an initialised splitter has been called with an empty TOC list and
\* has returned an empty list.
C9_Reached ==
    /\ splitOut.called
    /\ splitOut.initialized
    /\ initOut = Called(Return(TRUE))
    /\ splitOut.toc = << >>
    /\ splitOut.out = Return(<< >>)

\* the half of C9 that holds: no entry at the requested level gives an empty list
C9_NoEntryAtLevel ==
    (splitOut.called /\ splitOut.initialized /\ splitOut.toc # << >>
       /\ EntriesAtLevel = << >>) => splitOut.out = Return(<< >>)

\* every pre-flight check of validate passes, read off the file itself
PreflightChecksPass(f) ==
    /\ f.disk.kind = "file"
    /\ toLowerCase(f.ext) = <<".epub">>
    /\ f.disk.size > 0
    /\ f.disk.size <= MaxFileSize
    /\ f.disk.readable
    /\ f.disk.zip.kind = "zip"
    /\ MimetypePath \in DOMAIN f.disk.zip.entries
    /\ f.disk.zip.entries[MimetypePath].kind = "text"
    /\ trim(f.disk.zip.entries[MimetypePath].text) = EpubMimetype
    /\ ContainerPath \in DOMAIN f.disk.zip.entries
    /\ f.disk.zip.entries[ContainerPath].kind = "container"
    /\ f.disk.zip.entries[ContainerPath].fullPath # << >>

\* C10: validate(path) never throws and returns a boolean: false whenever some
\* pre-flight check fails, true only when all of them pass.
C10_ValidateIsTotal ==
    validateOut.called =>
        /\ ~validateOut.out.threw
        /\ validateOut.out.value \in BOOLEAN
        /\ validateOut.out.value <=> PreflightChecksPass(file)

\* C10 witness: validate() has run on a present *.epub file of legal size that cannot
\* be read, the case its outer catch absorbs, and has returned false.
C10_Witness ==
    /\ validateOut.called
    /\ file.disk.kind = "file"
    /\ toLowerCase(file.ext) = <<".epub">>
    /\ file.disk.size > 0
    /\ file.disk.size <= MaxFileSize
    /\ ~file.disk.readable
    /\ validateOut.out = Return(FALSE)

(***************************************************************************)
(* Properties of the cover                                                 *)
(***************************************************************************)
\* extractCoverInfo on the package document of the file
CoverOutcome(f) ==
    extractCoverInfo(f.disk.zip.entries, PackageOf(f).opfData, PackageOf(f).opfDir, config)

\* the package document has a metadata block and a manifest with items
HasManifestAndMetadata(f) ==
    /\ ~manifestOf(PackageOf(f).opfData).threw
    /\ manifestOf(PackageOf(f).opfData).value.defined
    /\ ~metadataOf(PackageOf(f).opfData).threw

ManifestItems(f) == manifestOf(PackageOf(f).opfData).value.items
Metadata(f) == metadataOf(PackageOf(f).opfData).value

\* the candidate cover path the strategies give, << >> for none
Candidate(f) ==
    coverImagePathOf(f.disk.zip.entries, Metadata(f), ManifestItems(f), PackageOf(f).opfDir)

\* the archive entries the path search finds for the candidate, in search order
ResolvedEntries(f) ==
    SelectSeq(pathsToTry(Candidate(f), PackageOf(f).opfDir),
              LAMBDA p : HasEntry(f.disk.zip.entries, p))

\* the entry that is read cannot be inflated, or is not a decodable image
UnreadableEntry(entry) ==
    \/ entry.kind = "corrupt"
    \/ entry.kind = "image" /\ ~entry.empty /\ ~entry.decodable
    \/ entry.kind \notin {"corrupt", "image"}

\* C11: with cover extraction enabled extractCoverInfo never throws: no candidate gives
\* an empty image with the 'no cover found' status, a candidate that resolves to no
\* archive entry gives an empty image with the 'file missing' status, and a failure
\* of reading, decoding or re-encoding, a package document without a manifest
\* included, gives an empty image with the 'extraction failed' status.
C11_CoverNeverThrows ==
    (parseResults # << >> /\ PackageParsed(file) /\ config.extractCover) =>
        /\ ~CoverOutcome(file).threw
        /\ parseResults[1].value.success =>
              parseResults[1].value.coverInfo = CoverOutcome(file).value
        /\ ~HasManifestAndMetadata(file) =>
              CoverOutcome(file).value = CoverInfo(<< >>, AltFailed)
        /\ HasManifestAndMetadata(file) =>
              /\ Candidate(file) = << >> =>
                    CoverOutcome(file).value = CoverInfo(<< >>, AltNoCover)
              /\ (Candidate(file) # << >> /\ ResolvedEntries(file) = << >>) =>
                    CoverOutcome(file).value = CoverInfo(<< >>, AltFileMissing)
              /\ (Candidate(file) # << >> /\ ResolvedEntries(file) # << >>
                  /\ UnreadableEntry(file.disk.zip.entries[ResolvedEntries(file)[1]])) =>
                    CoverOutcome(file).value = CoverInfo(<< >>, AltFailed)

\* C11 witness: parse() has run with cover extraction enabled on a package document
\* without a manifest, and the result carries the 'extraction failed' cover.
C11_Witness ==
    /\ parseResults # << >>
    /\ PackageParsed(file)
    /\ config.extractCover
    /\ manifestOf(PackageOf(file).opfData).threw
    /\ parseResults[1].value.success
    /\ parseResults[1].value.coverInfo = CoverInfo(<< >>, AltFailed)

\* strategy 1 as specified: the manifest item whose id is the text of the metadata
\* `cover` element
ByCoverKey(f) ==
    IF Metadata(f).cover = << >> THEN << >>
    ELSE hrefOfFirst(ManifestItems(f), LAMBDA item : item.id = Metadata(f).cover[1])

\* strategy 2: the first manifest item with properties or id equal to cover-image
ByCoverImage(f) ==
    hrefOfFirst(ManifestItems(f),
                LAMBDA item : item.properties = "cover-image" \/ item.id = "cover-image")

\* strategy 3: the first meta name=cover whose content is the id of a manifest item
ByMetaTag(f) ==
    LET ids == {ManifestItems(f)[i].id : i \in DOMAIN ManifestItems(f)}
        tags == SelectSeq(Metadata(f).meta,
                          LAMBDA meta : meta.name = "cover" /\ meta.content \in ids)
    IN IF tags = << >> THEN << >>
       ELSE hrefOfFirst(ManifestItems(f), LAMBDA item : item.id = tags[1].content)

\* strategy 4: the first image item whose id or href contains 'cover'
ByCoverName(f) ==
    hrefOfFirst(ManifestItems(f),
                LAMBDA item : /\ isImageType(item.mediaType)
                              /\ \/ includes(lowerSeg(item.id), "cover")
                                 \/ hrefIncludes(item.href, "cover"))

\* strategy 5: the first conventional file name that exists in the package directory
ByCommonName(f) ==
    LET names == SelectSeq(commonCoverNames,
                           LAMBDA name : HasEntry(f.disk.zip.entries,
                                                  IF PackageOf(f).opfDir # << >>
                                                  THEN PackageOf(f).opfDir \o <<name>>
                                                  ELSE <<name>>))
    IN IF names = << >> THEN << >> ELSE <<names[1]>>

\* strategy 6: the first image item
ByFirstImage(f) ==
    hrefOfFirst(ManifestItems(f), LAMBDA item : isImageType(item.mediaType))

\* the candidate of the first strategy, in the given order, that yields one
FirstCandidate(strategies) ==
    LET hits == SelectSeq(strategies, LAMBDA c : c # << >>)
    IN IF hits = << >> THEN << >> ELSE hits[1]

\* parse() has run with cover extraction enabled on a package document that has a
\* metadata block and manifest items
CoverResolved ==
    /\ parseResults # << >>
    /\ PackageParsed(file)
    /\ config.extractCover
    /\ HasManifestAndMetadata(file)

\* C12: the cover resolver tries its six strategies in the fixed order metadata
\* `cover` key resolved by manifest id, cover-image property or id, meta name=cover,
\* image whose id or href contains 'cover', conventional file name, first image; the
\* candidate used is the one of the first strategy that yields one.
C12_StrategyOrder ==
    CoverResolved =>
        Candidate(file) = FirstCandidate(<<ByCoverKey(file), ByCoverImage(file),
                                           ByMetaTag(file), ByCoverName(file),
                                           ByCommonName(file), ByFirstImage(file)>>)

\* C12 failing input: parse() has run on a package whose metadata `cover` element names
\* the manifest item img-a while another item carries the cover-image property, and
\* the cover in the result is the image of the second item.
C12_Reached ==
    /\ CoverResolved
    /\ ByCoverKey(file) = <<"images", "a.jpg">>
    /\ ByCoverImage(file) = <<"images", "c1.jpg">>
    /\ parseResults[1].value.success
    /\ parseResults[1].value.coverInfo
         = CoverInfo(<<"data:image/jpeg;base64,", PackageOf(file).opfDir \o <<"images", "c1.jpg">>>>,
                     AltCover)

\* what the code does: strategy 1 never yields a candidate, strategies 2 to 6 are
\* tried in order
C12_OrderWithoutCoverKey ==
    CoverResolved =>
        Candidate(file) = FirstCandidate(<<ByCoverImage(file), ByMetaTag(file),
                                           ByCoverName(file), ByCommonName(file),
                                           ByFirstImage(file)>>)

\* the package directory of the file, << >> at the archive root
PackageDir(f) == IF PackageOf(f).opfDir = <<".">> THEN << >> ELSE PackageOf(f).opfDir

\* './'-stripped for a path that starts with './', './'-prefixed otherwise
DotSlashVariant(p) == IF Head(p) = "." THEN Tail(p) ELSE <<".">> \o p

ConventionalDirs == <<"OEBPS", "content", "images", "img">>

\* the search order as stated: raw path, package-directory-prefixed path, './'
\* variant, then the path under each conventional subdirectory
StatedSearchOrder(p, dir) ==
    <<p, dir \o p, DotSlashVariant(p)>>
    \o [i \in DOMAIN ConventionalDirs |-> <<ConventionalDirs[i]>> \o p]

\* the search order with, after the path under each conventional subdirectory, the
\* bare file name under that subdirectory
FullSearchOrder(p, dir) ==
    <<p, dir \o p, DotSlashVariant(p)>>
    \o [i \in 1..(2 * Len(ConventionalDirs)) |->
           IF i % 2 = 1 THEN <<ConventionalDirs[(i + 1) \div 2]>> \o p
           ELSE <<ConventionalDirs[i \div 2], p[Len(p)]>>]

\* the first path of the order that names an entry of the archive, as a sequence of
\* zero or one path
FirstExistingOf(f, order) ==
    LET existing == SelectSeq(order, LAMBDA p : HasEntry(f.disk.zip.entries, p))
    IN IF existing = << >> THEN << >> ELSE <<existing[1]>>

\* the cover a successful parse() reports when the search ends at the given entry
CoverReadAt(f, found) ==
    IF found = << >> THEN CoverInfo(<< >>, AltFileMissing)
    ELSE IF UnreadableEntry(f.disk.zip.entries[found[1]]) THEN CoverInfo(<< >>, AltFailed)
    ELSE IF f.disk.zip.entries[found[1]].empty THEN CoverInfo(<< >>, AltEmptyData)
    ELSE CoverInfo(<<"data:image/jpeg;base64,", f.disk.zip.entries[found[1]].data>>, AltCover)

NoCoverDeclaration(f) ==
    /\ Metadata(f).cover = << >>
    /\ \A i \in DOMAIN ManifestItems(f) :
          /\ ManifestItems(f)[i].properties # "cover-image"
          /\ ManifestItems(f)[i].id # "cover-image"
    /\ \A i \in DOMAIN Metadata(f).meta : Metadata(f).meta[i].name # "cover"

\* the manifest lists no image and the package directory holds no file with a
\* conventional cover name
NoImageToFallBackOn(f) ==
    /\ \A i \in DOMAIN ManifestItems(f) : ~isImageType(ManifestItems(f)[i].mediaType)
    /\ \A i \in DOMAIN commonCoverNames :
          ~HasEntry(f.disk.zip.entries, PackageDir(f) \o <<commonCoverNames[i]>>)

\* the status texts that name a specific reason
SpecificStatuses == {AltNoCover, AltFileMissing, AltEmptyData}

IsCoverInfo(coverInfo) ==
    /\ DOMAIN coverInfo = {"cover_image", "cover_alt_text"}
    /\ coverInfo.cover_alt_text # << >>

\* C15: the cover result of a successful parse() is absent if and only if the
\* extractCover option is disabled; with extractCover enabled coverInfo is present
\* with cover_image and cover_alt_text set, so a cover that was not found is never an
\* absent coverInfo.
C15_AbsentIffDisabled ==
    \A i \in DOMAIN parseResults :
        (~parseResults[i].threw /\ parseResults[i].value.success) =>
            /\ "coverInfo" \in DOMAIN parseResults[i].value
            /\ parseResults[i].value.coverInfo = Undefined <=> ~config.extractCover
            /\ config.extractCover => IsCoverInfo(parseResults[i].value.coverInfo)

\* C15 witness: parse() has succeeded with extractCover enabled on a book for which no
\* cover was found, and coverInfo is present with the 'no cover found' status.
C15_Witness ==
    /\ CoverResolved
    /\ Candidate(file) = << >>
    /\ parseResults[1].value.success
    /\ parseResults[1].value.coverInfo # Undefined
    /\ parseResults[1].value.coverInfo.cover_image = << >>
    /\ parseResults[1].value.coverInfo.cover_alt_text = AltNoCover

\* parse() has succeeded with extractCover disabled and coverInfo is absent
C15_DisabledReached ==
    /\ parseResults # << >>
    /\ ~config.extractCover
    /\ parseResults[1].value.success
    /\ parseResults[1].value.coverInfo = Undefined

(***************************************************************************)
(* Properties of getChapterStats                                           *)
(***************************************************************************)
\* the sum of the wordCount fields of a chapter list
RECURSIVE SumOfWordCountFields(_)
SumOfWordCountFields(chapters) ==
    IF chapters = << >> THEN 0
    ELSE Head(chapters).wordCount + SumOfWordCountFields(Tail(chapters))

\* r is a / b rounded to the nearest integer, halves up
IsRounded(r, a, b) == 2 * b * r <= 2 * a + b /\ 2 * a + b < 2 * b * (r + 1)

\* C16: for the chapter list splitChapters returned, getChapterStats gives
\* totalChapters equal to the list length, totalWords equal to the sum of the
\* chapters' wordCount fields and averageWords equal to round(totalWords /
\* totalChapters), 0 for the empty list; also when maxChapterLength truncated chapters.
C16_StatsMatchChapters ==
    statsOut.called =>
        /\ statsOut.out.totalChapters = Len(statsOut.chapters)
        /\ statsOut.out.totalWords = SumOfWordCountFields(statsOut.chapters)
        /\ statsOut.chapters # << >> =>
              IsRounded(statsOut.out.averageWords, statsOut.out.totalWords,
                        statsOut.out.totalChapters)
        /\ statsOut.chapters = << >> => statsOut.out.averageWords = 0

\* C16 witness: getChapterStats has run on the two chapters splitChapters returned
\* with maxChapterLength set, one of them truncated, and the average is not a whole
\* number before rounding.
C16_Witness ==
    /\ statsOut.called
    /\ splitOut.called
    /\ ~splitOut.out.threw
    /\ statsOut.chapters = splitOut.out.value
    /\ splitOut.maxChapterLength = MaxChapterLength
    /\ Len(statsOut.chapters) = 2
    /\ \E i \in DOMAIN statsOut.chapters :
          /\ Len(statsOut.chapters[i].content) = MaxChapterLength + 1
          /\ statsOut.chapters[i].content[MaxChapterLength + 1] = "..."
    /\ statsOut.out.totalWords % 2 = 1

(***************************************************************************)
(* Properties of the metadata                                              *)
(***************************************************************************)
BookInfoFields ==
    {"title", "author", "translator", "publisher", "isbn", "publication_date", "language"}

\* parse() has succeeded on a package document with a metadata block
BookInfoExtracted ==
    /\ parseResults # << >>
    /\ PackageParsed(file)
    /\ ~metadataOf(PackageOf(file).opfData).threw
    /\ parseResults[1].value.success

\* C17: every field of the BookInfo returned by metadata extraction (title, author,
\* translator, publisher, isbn, publication date, language) is populated: a field whose
\* metadata element is absent or has empty text holds a sentinel string, never the
\* empty string.
C17_EveryFieldPopulated ==
    BookInfoExtracted =>
        /\ DOMAIN parseResults[1].value.bookInfo = BookInfoFields
        /\ \A k \in BookInfoFields : parseResults[1].value.bookInfo[k] # << >>

\* C17 failing input: parse() has succeeded on a package whose metadata block has no
\* elements; title, author and publisher hold their sentinels while isbn, publication
\* date and translator are empty strings.
C17_Reached ==
    /\ BookInfoExtracted
    /\ metadataOf(PackageOf(file).opfData).value = BareMetadata
    /\ parseResults[1].value.bookInfo.title = UnknownTitle
    /\ parseResults[1].value.bookInfo.author = UnknownAuthor
    /\ parseResults[1].value.bookInfo.publisher = UnknownPublisher
    /\ parseResults[1].value.bookInfo.isbn = << >>
    /\ parseResults[1].value.bookInfo.publication_date = << >>
    /\ parseResults[1].value.bookInfo.translator = << >>

\* what the code does: title, author, publisher and language are always populated
C17_DefaultedFields ==
    BookInfoExtracted =>
        \A k \in {"title", "author", "publisher", "language"} :
            parseResults[1].value.bookInfo[k] # << >>

(***************************************************************************)
(* Properties of the mimetype check                                        *)
(***************************************************************************)
\* the file is an archive
IsArchive(f) == f.disk.kind = "file" /\ f.disk.zip.kind = "zip"

\* the archive has a mimetype entry whose content is exactly application/epub+zip
ExactMimetype(f) ==
    /\ HasEntry(f.disk.zip.entries, MimetypePath)
    /\ f.disk.zip.entries[MimetypePath].kind = "text"
    /\ f.disk.zip.entries[MimetypePath].text = EpubMimetype

\* the archive has a mimetype entry that reads application/epub+zip once surrounding
\* white space is removed
TrimmedMimetype(f) ==
    /\ HasEntry(f.disk.zip.entries, MimetypePath)
    /\ f.disk.zip.entries[MimetypePath].kind = "text"
    /\ trim(f.disk.zip.entries[MimetypePath].text) = EpubMimetype

\* C18: validate() returns false, and parse() returns success=false, for every archive
\* that has no mimetype entry or whose mimetype content is not exactly
\* application/epub+zip, surrounding white space or a trailing newline included.
C18_ExactMimetypeRequired ==
    (IsArchive(file) /\ ~ExactMimetype(file)) =>
        /\ validateOut.called => (~validateOut.out.threw /\ validateOut.out.value = FALSE)
        /\ \A i \in DOMAIN parseResults :
              ~parseResults[i].threw /\ parseResults[i].value.success = FALSE

\* C18 failing input: validate() and parse() have run on an otherwise conforming
\* archive whose mimetype entry ends with a newline; validate() returned true and
\* parse() succeeded.
C18_Reached ==
    /\ IsArchive(file)
    /\ HasEntry(file.disk.zip.entries, MimetypePath)
    /\ file.disk.zip.entries[MimetypePath] = TextEntry(EpubMimetype \o <<"\n">>)
    /\ validateOut.called
    /\ validateOut.out.value = TRUE
    /\ parseResults # << >>
    /\ parseResults[1].value.success

\* what the code does: an archive is rejected when it has no mimetype entry or the
\* trimmed content differs from application/epub+zip
C18_TrimmedMimetypeRequired ==
    (IsArchive(file) /\ ~TrimmedMimetype(file)) =>
        /\ validateOut.called => (~validateOut.out.threw /\ validateOut.out.value = FALSE)
        /\ \A i \in DOMAIN parseResults :
              ~parseResults[i].threw /\ parseResults[i].value.success = FALSE

(***************************************************************************)
(* Properties of the package directory                                     *)
(***************************************************************************)
\* the parent directory of a path, the empty string for a path without one
ParentDirectory(p) == SubSeq(p, 1, Len(p) - 1)

\* the package document path the container descriptor of the file gives
PackagePath(f) == f.disk.zip.entries[ContainerPath].fullPath

\* the package document sits at the archive root
PackageAtRoot(f) == Len(PackagePath(f)) = 1

\* only the conventional file name strategy can yield a cover candidate
OnlyConventionalName(f) ==
    /\ ByCoverKey(f) = << >>
    /\ ByCoverImage(f) = << >>
    /\ ByMetaTag(f) = << >>
    /\ ByCoverName(f) = << >>

\* the first conventional cover name that is a root-level entry, as zero or one path
RootCoverFile(f) ==
    FirstExistingOf(f, [i \in DOMAIN commonCoverNames |-> <<commonCoverNames[i]>>])

\* an entry of the table of contents that is no part title and whose document, the
\* href without its fragment, is a root-level entry of the archive
RootDocument(entry) ==
    /\ entry.href # << >>
    /\ ~isPartTitle(entry.title)
    /\ stripFragment(entry.href) \in DOMAIN file.disk.zip.entries

\* the cover filename strategy finds a root-level conventional cover file
RootCoverFileFound ==
    (parseResults # << >> /\ PackageParsed(file) /\ HasManifestAndMetadata(file)
     /\ PackageAtRoot(file) /\ OnlyConventionalName(file) /\ RootCoverFile(file) # << >>) =>
        /\ parseResults[1].value.success
        /\ parseResults[1].value.coverInfo = CoverReadAt(file, RootCoverFile(file))

\* the cover path search reads a root-level entry named by the candidate
RootCoverPathRead ==
    (parseResults # << >> /\ PackageParsed(file) /\ HasManifestAndMetadata(file)
     /\ PackageAtRoot(file) /\ Candidate(file) # << >>
     /\ HasEntry(file.disk.zip.entries, Candidate(file))) =>
        /\ parseResults[1].value.success
        /\ parseResults[1].value.coverInfo = CoverReadAt(file, <<Candidate(file)>>)

\* the chapter splitter reads root-level documents by their bare name
RootChaptersRead ==
    (SplitReturned /\ splitOut.initialized /\ PackageAtRoot(file)) =>
        \A i \in DOMAIN EntriesAtLevel :
            RootDocument(EntriesAtLevel[i]) =>
                \E j \in DOMAIN Chapters :
                    /\ Chapters[j].title = EntriesAtLevel[i].title
                    /\ Chapters[j].content # << >>

\* C19: the package directory computed from the container descriptor is the parent
\* directory of the package document path, the empty string at the archive root, and
\* the cover filename strategy, the cover path search and the chapter splitter then
\* address root-level entries by their bare name.
C19_PackageDirectory ==
    /\ (parseResults # << >> /\ PackageParsed(file)) =>
          PackageOf(file).opfDir = ParentDirectory(PackagePath(file))
    /\ (initOut.called /\ ~initOut.out.threw /\ splitter.zip.kind # "null") =>
          splitter.opfDir = ParentDirectory(PackagePath(file))
    /\ RootCoverFileFound
    /\ RootCoverPathRead
    /\ RootChaptersRead

\* C19 failing input: parse() has run on a book whose package document and cover.jpg
\* both sit at the archive root and whose manifest lists no image; the package
\* directory is "." and the result reports that no cover was found.
C19_Reached ==
    /\ parseResults # << >>
    /\ PackageParsed(file)
    /\ HasManifestAndMetadata(file)
    /\ PackageAtRoot(file)
    /\ OnlyConventionalName(file)
    /\ RootCoverFile(file) = << <<"cover.jpg">> >>
    /\ PackageOf(file).opfDir = <<".">>
    /\ parseResults[1].value.success
    /\ parseResults[1].value.coverInfo = CoverInfo(<< >>, AltNoCover)

\* what the code does: with the package document in a subdirectory the package
\* directory is the parent directory, and at the root the cover path search and the
\* chapter splitter use bare names
C19_ExceptCoverFileName ==
    /\ (parseResults # << >> /\ PackageParsed(file) /\ ~PackageAtRoot(file)) =>
          PackageOf(file).opfDir = ParentDirectory(PackagePath(file))
    /\ RootCoverPathRead
    /\ RootChaptersRead

(***************************************************************************)
(* Properties of the split request                                         *)
(***************************************************************************)
\* the splitter of the request holds an open archive
HandleOpen == splitter.zip.kind # "null"

\* C20: every split operation that opens an archive handle is eventually followed by
\* an explicit release of that handle when the operation ends, whether it succeeds or
\* fails with an exception.
C20_HandleReleased == HandleOpen ~> ~HandleOpen

\* C20 failing input: the request has ended after the session was deleted between
\* splitChapters and updateSession, and the archive of its splitter is still open.
C20_Reached ==
    /\ route.pc = "done"
    /\ route.response # 200
    /\ splitOut.called
    /\ ~splitOut.out.threw
    /\ ~route.sessionAlive
    /\ HandleOpen

\* what the code does: a request that ends with the success response has released
\* the handle
C20_ReleasedOnSuccess ==
    (route.pc = "done" /\ route.response = 200) => ~HandleOpen

(***************************************************************************)
(* Properties of repeated parse() calls                                    *)
(***************************************************************************)
\* the cover part of a parse() result: its coverInfo, or "none" for a result without one
CoverPart(result) ==
    IF "coverInfo" \in DOMAIN result THEN <<"coverInfo", result.coverInfo>> ELSE <<"none">>

StoresNamedResults(r) ==
    /\ analyze[r].pc = "provider"
    /\ analyze'[r].pc = "save"
    /\ analyze[r].chapterIndexes.given
    /\ analyze[r].chapterIndexes.list # << >>

\* the chapterAnalysis positions the chapterIndexes of request r name
NamedPositions(r) == {index + 1 : index \in Range(analyze[r].chapterIndexes.list)}

\* what reading a position of the chapterAnalysis of a session gives: a result, null,
\* or undefined past the end of the array
StoredAt(session, position) ==
    IF position \in DOMAIN existingAnalysis(session, MaxChapters)
    THEN existingAnalysis(session, MaxChapters)[position]
    ELSE Undefined

\* C22: an analyze request that names chapterIndexes changes only the chapterAnalysis
\* positions those indexes name and preserves the result stored at every other
\* position, a result written meanwhile by another analyze request included.
C22_OtherPositionsPreserved ==
    [][\A r \in 1..MaxRequests :
         StoresNamedResults(r) =>
            \A position \in (1..MaxChapters) \ NamedPositions(r) :
                StoredAt(sessions', position) = StoredAt(sessions, position)]_vars

\* C22 failing input: two analyze requests on one session have both answered 200, one
\* for chapter 0 and one for chapter 1, and the analysis of chapter 1 is not stored.
C22_Reached ==
    \E r, q \in 1..MaxRequests :
        /\ analyze[r].response = 200 /\ analyze[q].response = 200
        /\ analyze[r].chapterIndexes = [given |-> TRUE, list |-> <<0>>]
        /\ analyze[q].chapterIndexes = [given |-> TRUE, list |-> <<1>>]
        /\ sessions.kind = "session"
        /\ StoredAt(sessions, 2).kind # "analysis"

\* what the code does: the positions a request does not name are those of the session
\* object it fetched when it arrived
C22_OtherPositionsFromOwnCopy ==
    [][\A r \in 1..MaxRequests :
         StoresNamedResults(r) =>
            \A position \in (1..MaxChapters) \ NamedPositions(r) :
                StoredAt(sessions', position) = StoredAt(analyze[r].session, position)]_vars

\* C24: once deleteSession(fileId) has completed, getSession(fileId) returns null and
\* no session file of that id exists, whatever updateSession call was in flight when
\* the deletion ran; a deleted session is never put back into the session map.
C24_DeletedStaysDeleted ==
    deletion = "done" => (sessions = NoSession /\ sessionFile = NoSession)

\* C24 failing input: deleteSession has completed, every request that was in flight
\* has ended, and the session is in the map and on disk again.
C24_Reached ==
    /\ deletion = "done"
    /\ file.disk.kind = "absent"
    /\ \A r \in 1..MaxRequests : analyze[r].pc \in {"idle", "done"}
    /\ sessions.kind = "session"
    /\ sessionFile.kind = "session"

\* what the code does: deleteSession leaves no session at the moment it completes
C24_DeletedAtCompletion ==
    [][(deletion # "done" /\ deletion' = "done") =>
          (sessions' = NoSession /\ sessionFile' = NoSession)]_vars

(***************************************************************************)
(* Properties of the responses and of the session status                   *)
(***************************************************************************)
\* the split request has found its session and has not ended
RequestInFlight == route.pc \notin {"idle", "done"}

ResponseSent == route.response # 0

\* C23: a parse, split or analyze request on an existing session eventually sends
\* its one HTTP response, even when the session is deleted while the request is in
\* flight; the catch block that records the 'error' status never fails without
\* responding.
C23_AlwaysResponds == RequestInFlight ~> ResponseSent

\* C23 failing input: the split request found its session, the session was deleted
\* while the request was in flight, and the request has ended without a response.
C23_Reached ==
    /\ route.pc = "done"
    /\ ~route.sessionAlive
    /\ ~ResponseSent

\* what the code does: a request whose session outlives it has responded when it ends
C23_RespondsWithSession ==
    (route.pc = "done" /\ route.sessionAlive) => ResponseSent

\* the split request has responded and its session still exists
RespondedWithSession == route.pc = "done" /\ ResponseSent /\ route.sessionAlive

\* C25: after a parse, split or analyze request has sent its response, the session
\* status is not left at the in-progress value the request set: it is the completed
\* value on success, 'error' on failure, and unchanged when a precondition check
\* rejects the request, the split request's empty table of contents included.
C25_StatusSettled ==
    RespondedWithSession =>
        route.status = CASE route.response = 200 -> "split"
                         [] route.response = 500 -> "error"
                         [] OTHER -> NoRequest.status

\* C25 failing input: the split request has answered 400 for an empty table of
\* contents and the session status is 'splitting'.
C25_Reached ==
    /\ RespondedWithSession
    /\ route.response = 400
    /\ LastToc = << >>
    /\ route.status = "splitting"

\* what the code does: the status is settled after every response but the 400
C25_SettledUnlessEmptyToc ==
    (RespondedWithSession /\ route.response # 400) =>
        route.status = CASE route.response = 200 -> "split"
                         [] route.response = 500 -> "error"
                         [] OTHER -> NoRequest.status

(***************************************************************************)
(* Properties of the splitter's life cycle                                 *)
(***************************************************************************)
\* the most recent initialize() call completed successfully and neither dispose() nor
\* cleanup() has been called since: both reset the archive reference, and a successful
\* initialize() sets it
SplitterUsable == initOut = Called(Return(TRUE)) /\ splitter.zip.kind # "null"

\* C26: splitChapters throws the 'not initialized' error unless the most recent
\* initialize() call on the splitter completed successfully and neither dispose() nor
\* cleanup() has been called since; an initialize() that failed leaves the splitter
\* unusable.
C26_UnusableUnlessInitialized ==
    [][(splitOut' # splitOut /\ ~SplitterUsable)
          => splitOut'.out = Throw(NotInitializedMessage)]_vars

\* C26 failing input: initialize() has failed on an archive whose container descriptor
\* cannot be used, and splitChapters has then returned instead of throwing.
C26_Reached ==
    /\ initOut.called
    /\ initOut.out.threw
    /\ file.disk.kind = "file"
    /\ file.disk.zip.kind = "zip"
    /\ splitOut.called
    /\ splitOut.initialized
    /\ ~splitOut.out.threw

\* what the code does: splitChapters throws exactly when the archive reference is unset,
\* which a failed initialize() may have set
C26_ThrowsIffNoArchive ==
    [][splitOut' # splitOut
          => (splitOut'.out = Throw(NotInitializedMessage) <=> splitter.zip.kind = "null")]_vars

(***************************************************************************)
(* Properties of the translator                                            *)
(***************************************************************************)
TranslatorRoles == {"trl", "translator"}

\* the role attribute of the contributor, in either spelling, denotes a translator
DenotesTranslator(contributor) ==
    contributor.role \in TranslatorRoles \/ contributor.opfRole \in TranslatorRoles

\* the dc:contributor elements of the package metadata, in document order
ContributorsOf(f) == metadataOf(PackageOf(f).opfData).value.contributor

\* the text of the first contributor that satisfies the test, '' for none
TextOfFirst(contributors, Test(_)) ==
    IF \A i \in DOMAIN contributors : ~Test(contributors[i]) THEN << >>
    ELSE contributors[CHOOSE i \in DOMAIN contributors :
                         /\ Test(contributors[i])
                         /\ \A j \in 1..(i - 1) : ~Test(contributors[j])].text

\* C27: extractBookInfo sets translator to the text of the first dc:contributor, in
\* document order, whose role attribute (plain role or namespaced opf:role) denotes a
\* translator, and to the empty string when there is no dc:contributor or none with
\* such a role.
C27_TranslatorOfFirstMatch ==
    \A i \in DOMAIN parseResults :
        parseResults[i].value.success =>
            parseResults[i].value.bookInfo.translator
                = TextOfFirst(ContributorsOf(file), DenotesTranslator)

\* C27 failing input: parse() has run on a book whose only translator is a contributor
\* with opf:role 'trl' and another plain role, and has given no translator.
C27_Reached ==
    /\ parseResults # << >>
    /\ parseResults[1].value.success
    /\ \E i \in DOMAIN ContributorsOf(file) :
          /\ ContributorsOf(file)[i].opfRole = "trl"
          /\ ContributorsOf(file)[i].role = "edt"
    /\ TextOfFirst(ContributorsOf(file), DenotesTranslator) # << >>
    /\ parseResults[1].value.bookInfo.translator = << >>

\* the role the code tests: the plain role when it is set, else opf:role
HasTranslatorRole(contributor) ==
    (IF contributor.role # "" THEN contributor.role ELSE contributor.opfRole)
        \in TranslatorRoles

\* what the code does: the translator is the first contributor whose plain role, or
\* whose opf:role when it has no plain role, denotes a translator
C27_TranslatorByPreferredRole ==
    \A i \in DOMAIN parseResults :
        parseResults[i].value.success =>
            parseResults[i].value.bookInfo.translator
                = TextOfFirst(ContributorsOf(file), HasTranslatorRole)

\* ---- the spine fallback ----

\* the itemrefs of the package document's spine, none when there is no spine
ItemrefsOf(f) ==
    LET spine == spineOf(PackageOf(f).opfData) IN
    IF spine.threw THEN << >> ELSE spine.value.items

\* the manifest items whose id is the given idref, in manifest order
ItemsWithId(f, idref) ==
    LET manifest == manifestOf(PackageOf(f).opfData) IN
    IF manifest.threw THEN << >>
    ELSE SelectSeq(manifest.value.items, LAMBDA item : item.id = idref)

\* the 1-based spine positions whose itemref has an idref that a manifest item bears
ResolvedPositions(f) ==
    {i \in DOMAIN ItemrefsOf(f) :
        ItemrefsOf(f)[i] # "" /\ ItemsWithId(f, ItemrefsOf(f)[i]) # << >>}

\* the k-th resolved spine position in spine order
ResolvedAt(f, k) ==
    CHOOSE p \in ResolvedPositions(f) :
        Cardinality({q \in ResolvedPositions(f) : q <= p}) = k

\* the navigation document, the legacy navigation map and the HTML scan give nothing,
\* so the table of contents of parse() is the spine fallback's
SpineFallbackUsed ==
    /\ parseResults # << >>
    /\ PackageParsed(file)
    /\ TiersOf(file) = << << >>, << >>, << >> >>

\* C28: the spine fallback returns exactly one entry for each spine itemref whose
\* idref resolves to a manifest item, in spine order, each with level 1, a null
\* parent_id, the href of that manifest item and the generic title numbered by the
\* itemref's position; an itemref without idref or with an idref no manifest item
\* bears is skipped and the resolver does not fail.
C28_SpineFallbackEntries ==
    SpineFallbackUsed =>
        /\ parseResults[1].value.success
        /\ Len(FirstToc) = Cardinality(ResolvedPositions(file))
        /\ \A k \in DOMAIN FirstToc :
              LET p == ResolvedAt(file, k) IN
              /\ FirstToc[k].level = 1
              /\ FirstToc[k].parent_id = NullId
              /\ FirstToc[k].href = ItemsWithId(file, ItemrefsOf(file)[p])[1].href
              /\ FirstToc[k].title = <<"di", ToString(p), "zhang">>

\* C28 witness: the spine fallback has given an entry for an itemref that follows a
\* skipped one, titled by its position in the spine.
C28_Witness ==
    /\ SpineFallbackUsed
    /\ Len(ItemrefsOf(file)) = 2
    /\ ResolvedPositions(file) = {2}
    /\ Len(FirstToc) = 1
    /\ FirstToc[1].title = <<"di", "2", "zhang">>

\* ---- part titles ----

\* the entries of the call that give a chapter, in TOC order: those whose document can
\* be read and the part titles that link to a document
EmittedEntries ==
    LET kept(entry) == Extractable(entry)
                       \/ (isPartTitle(entry.title) /\ entry.href # << >>)
    IN SelectSeq(EntriesAtLevel, kept)

\* the file names the fixed table maps a part title to, in ascending order
MappedFiles(title) ==
    LET range == getChapterRangeForPart(title) IN
    [k \in 1..(range.end - range.start + 1) |-> chapterFiles(range.start + k - 1)]

\* the text of the document at an archive path
TextAt(path) == extractTextFromHtml(markupOf(file.disk.zip.entries[path]))

\* the texts, each followed by a space
RECURSIVE Spaced(_)
Spaced(texts) ==
    IF texts = << >> THEN << >> ELSE Head(texts) \o <<" ">> \o Spaced(Tail(texts))

\* the documents a part-title entry is built from: its own, then the mapped files the
\* archive holds, in ascending order
PartSources(entry) ==
    <<fullPathOf(PackageOf(file).opfDir, stripFragment(entry.href))>>
    \o SelectSeq(MappedFiles(entry.title),
                 LAMBDA path : HasEntry(file.disk.zip.entries, path))

\* C29: the content of the chapter of a part-title entry whose own document can be read
\* is the normalised text of that document followed by the text of each file the fixed
\* table maps the title to, in ascending file order; a mapped file the archive lacks
\* adds nothing and the entry still gives its chapter, and a part title without
\* mapping gives the text of its own document alone.
C29_PartContentAggregated ==
    (SplitReturned /\ splitOut.toc # << >>) =>
        /\ Len(Chapters) = Len(EmittedEntries)
        /\ \A j \in DOMAIN EmittedEntries :
              LET entry == EmittedEntries[j] IN
              (isPartTitle(entry.title) /\ Extractable(entry)) =>
                  Chapters[j].content
                    = truncate(cleanText(Spaced([k \in DOMAIN PartSources(entry) |->
                                                    TextAt(PartSources(entry)[k])])),
                               [maxChapterLength |-> splitOut.maxChapterLength])

\* C29 witness: a call without length limit has returned the chapter of a part title
\* mapped to a range of which the archive holds the first and the last file and lacks
\* the one between, and the chapter holds the text of the three documents read.
C29_Witness ==
    /\ SplitReturned
    /\ splitOut.maxChapterLength = 0
    /\ \E j \in DOMAIN EmittedEntries :
          LET entry == EmittedEntries[j] IN
          /\ isPartTitle(entry.title)
          /\ Extractable(entry)
          /\ Len(MappedFiles(entry.title)) = 3
          /\ Len(PartSources(entry)) = 3
          /\ PartSources(entry)[2] = chapterFiles(2)
          /\ PartSources(entry)[3] = chapterFiles(4)
          /\ j \in DOMAIN Chapters
          /\ Chapters[j].content
               = cleanText(TextAt(PartSources(entry)[1])) \o <<" ">>
                 \o cleanText(TextAt(chapterFiles(2))) \o <<" ">>
                 \o cleanText(TextAt(chapterFiles(4)))

\* ---- paragraph structure of the chapter text ----

\* a line break stands between two pieces of text that is not white space
HasParagraphBreak(text) ==
    \E i, j, k \in DOMAIN text :
        /\ i < j /\ j < k
        /\ text[i] \notin WhiteSpace /\ text[j] = "\n" /\ text[k] \notin WhiteSpace

\* two line breaks in a row
HasBlankLine(text) ==
    \E i \in DOMAIN text : i + 1 <= Len(text) /\ text[i] = "\n" /\ text[i + 1] = "\n"

\* the chapters of the call that come from one document read in full: the entry is no
\* part title, its document can be read, and no length limit is set
PlainChapters ==
    {j \in DOMAIN EmittedEntries :
        /\ j \in DOMAIN Chapters
        /\ ~isPartTitle(EmittedEntries[j].title)
        /\ Extractable(EmittedEntries[j])
        /\ splitOut.maxChapterLength = 0}

\* the text of the document an entry links to, tags turned into line breaks or removed
SourceText(entry) ==
    TextAt(fullPathOf(PackageOf(file).opfDir, stripFragment(entry.href)))

\* C30: the normalised text of a chapter keeps the paragraph structure: where a
\* block-level closing tag or a line-break tag of the source document parts two pieces
\* of text, the chapter content has a blank line between them.
C30_ParagraphsKept ==
    (SplitReturned /\ splitOut.toc # << >>) =>
        \A j \in PlainChapters :
            HasParagraphBreak(SourceText(EmittedEntries[j])) =>
                HasBlankLine(Chapters[j].content)

\* C30 failing input: a call has returned the chapter of a document with several
\* paragraphs, and its content holds no line break at all.
C30_Reached ==
    /\ SplitReturned
    /\ \E j \in PlainChapters :
          /\ HasParagraphBreak(SourceText(EmittedEntries[j]))
          /\ Chapters[j].content # << >>
          /\ "\n" \notin Range(Chapters[j].content)

\* what the normalisation does give: white space of any kind, line breaks included,
\* collapses to single spaces, so that no chapter content holds a line break
C30_LineBreaksBecomeSpaces ==
    (SplitReturned /\ splitOut.toc # << >>) =>
        \A j \in PlainChapters :
            /\ Chapters[j].content = trim(collapseWhiteSpace(SourceText(EmittedEntries[j])))
            /\ "\n" \notin Range(Chapters[j].content)

====
